---- MODULE Spec2Model ----
(***************************************************************************)
(* A model of the analysis drivers. The checker (package checker): the     *)
(* action graph built by analyze/mkAction, its execution by execAll /      *)
(* action.exec / action.execOnce with the lemma maps of the actions, and   *)
(* the report made by printFindings. The compile-protocol driver (the      *)
(* doctor): the execution of its per-analysis actions by exec / execAll.   *)
(***************************************************************************)
EXTENDS Integers, Sequences, FiniteSets, TLC

----------------------------------------------------------------------------
(* The explored inputs. *)

\* analyses are named by numbers; the order of the numbers is the order of
\* their names as strings
Analyses == {1, 2}

\* packages are named by numbers; the number stands for the package's ID
\* and for its import path, ordered as the strings are
Pkgs == {1, 2}

\* at most this many root actions: len(analyses) * len(initial)
MaxRoots == 2

\* at most this many of the loaded packages are ill-typed
MaxIllTyped == 1

\* at most this many Run calls of a run return an error or an Output of
\* the wrong type
MaxFaults == 1

\* at most this many Run calls of a run report findings
MaxFindings == 1

----------------------------------------------------------------------------
(* Values. *)

\* reflect.Type values of outputs; "nil" is reflect.TypeOf(nil) and an
\* unset OutputType
DynamicTypes == {"nil", "T"}

\* the value of Unit.Output before Run assigns it
NilOutput == [type |-> "nil", val |-> 0]

\* error values: kind "nil" is the nil error
NilErr == [kind |-> "nil", failed |-> <<>>]

SkippedErr == [kind |-> "analysis skipped due to errors in package", failed |-> <<>>]

RunErr == [kind |-> "run", failed |-> <<>>]

\* the errors that only a Run call can cause
FaultKinds == {"run", "internal error"}

InternalErr == [kind |-> "internal error", failed |-> <<>>]

PrereqErr(names) == [kind |-> "failed prerequisites", failed |-> names]

\* the findings a Run may report
Finding1 == [pos |-> 7, category |-> "", message |-> "unreachable statement"]

FindingLists == {<<>>, <<Finding1>>}

\* act.objLemmas and act.pkgLemmas: maps from <<object, lemma type>> and
\* from <<package, lemma type>> to the lemma, which is named by the action
\* that set it
NoLemmas == [obj |-> <<>>, pkg |-> <<>>]

----------------------------------------------------------------------------
(* Helpers on relations and sequences. *)

RECURSIVE ReachFrom(_, _, _)
ReachFrom(succ, S, n) ==
    IF n = 0 THEN S
    ELSE ReachFrom(succ, S \cup UNION {succ[x] : x \in S}, n - 1)

Acyclic(succ, Nodes) ==
    \A x \in Nodes : x \notin ReachFrom(succ, succ[x], Cardinality(Nodes))

Range(s) == {s[i] : i \in DOMAIN s}

\* the elements of a set of numbers in ascending order
RECURSIVE SortedSeq(_)
SortedSeq(S) ==
    IF S = {} THEN <<>>
    ELSE LET m == CHOOSE x \in S : \A y \in S : x <= y
         IN <<m>> \o SortedSeq(S \ {m})

\* sequences without repetition over the subsets of S
Orderings(S) ==
    {s \in UNION {[1..n -> S] : n \in 0..Cardinality(S)} :
        \A i, j \in DOMAIN s : i # j => s[i] # s[j]}

----------------------------------------------------------------------------
(* Package objectpath. Strings are sequences of characters, so that the    *)
(* printing of a path by Of and its splitting by parse are computed.       *)

\* the longest explored path string has this many dot-separated words
MaxWords == 3

Digits == <<"0", "1", "2", "3", "4", "5", "6", "7", "8", "9">>

\* unicode.IsDigit and unicode.IsLetter on the characters that occur
IsDigit(c) == \E i \in DOMAIN Digits : Digits[i] = c

IsLetter(c) ==
    c \in {"A", "F", "I", "M", "S", "X", "Y", "Z", "a", "b", "d", "e", "g",
           "h", "i", "k", "l", "m", "n", "o", "p", "r", "s", "t", "u", "v",
           "y"}

\* token.IsExported: the name starts with an upper-case letter
IsExported(name) ==
    name # <<>> /\ name[1] \in {"A", "F", "I", "M", "S", "X", "Y", "Z"}

DigitVal(c) == (CHOOSE i \in DOMAIN Digits : Digits[i] = c) - 1

opKey == <<"!", "k", "e", "y">>

opValue == <<"!", "v", "a", "l", "u", "e">>

opParams == <<"!", "p", "a", "r", "a", "m", "s">>

opResults == <<"!", "r", "e", "s", "u", "l", "t", "s">>

opUnderlying == <<"!", "u", "n", "d", "e", "r", "l", "y", "i", "n", "g">>

\* an element of a path ([]interface{}): a string or an int
StrElem(s) == [t |-> "string", v |-> s]

IntElem(i) == [t |-> "int", v |-> i]

\* strconv.Itoa for a number that is not negative
RECURSIVE Itoa(_)
Itoa(n) ==
    IF n < 10 THEN <<Digits[n + 1]>>
    ELSE Itoa(n \div 10) \o <<Digits[(n % 10) + 1]>>

\* fmt.Fprint(&buf, x) of a path element
Fprint(x) == IF x.t = "int" THEN Itoa(x.v) ELSE x.v

\* strconv.Atoi: an optional sign and one or more decimal digits
RECURSIVE AtoiDigits(_, _)
AtoiDigits(s, acc) ==
    IF s = <<>> THEN acc ELSE AtoiDigits(Tail(s), 10 * acc + DigitVal(Head(s)))

Atoi(word) ==
    LET signed == word # <<>> /\ Head(word) \in {"+", "-"}
        digits == IF signed THEN Tail(word) ELSE word
    IN  IF digits = <<>> \/ \E i \in DOMAIN digits : ~IsDigit(digits[i])
        THEN [ok |-> FALSE, n |-> 0]
        ELSE [ok |-> TRUE,
              n  |-> IF signed /\ Head(word) = "-"
                     THEN 0 - AtoiDigits(digits, 0)
                     ELSE AtoiDigits(digits, 0)]

\* strings.Split(s, ".")
RECURSIVE Split(_, _)
Split(s, word) ==
    IF s = <<>> THEN <<word>>
    ELSE IF Head(s) = "." THEN <<word>> \o Split(Tail(s), <<>>)
    ELSE Split(Tail(s), Append(word, Head(s)))

validIdent(name) ==
    /\ \A i \in DOMAIN name :
          name[i] = "_" \/ IsLetter(name[i]) \/ (i > 1 /\ IsDigit(name[i]))
    /\ name # <<>>

\* the types of go/types, as terms
Basic == [k |-> "basic"]

Pointer(t) == [k |-> "pointer", elem |-> t]

Chan(t) == [k |-> "chan", elem |-> t]

Map(key, t) == [k |-> "map", key |-> key, elem |-> t]

Named(name) == [k |-> "named", name |-> name]

Struct(fields) == [k |-> "struct", fields |-> fields]

Tuple(vs) == [k |-> "tuple", vars |-> vs]

Signature(recv, params, results) ==
    [k |-> "signature", recv |-> recv, params |-> Tuple(params),
     results |-> Tuple(results)]

Interface(methods) == [k |-> "interface", methods |-> methods]

\* the objects of go/types; id is the identity of the object (its address),
\* pkg is the path of obj.Pkg() and <<>> stands for a nil Pkg
Var(id, pkg, name, field, type) ==
    [id |-> id, class |-> "var", pkg |-> pkg, name |-> name, field |-> field,
     type |-> type]

Func(id, pkg, name, sig) ==
    [id |-> id, class |-> "func", pkg |-> pkg, name |-> name, field |-> FALSE,
     type |-> sig]

TypeName(id, pkg, name) ==
    [id |-> id, class |-> "type", pkg |-> pkg, name |-> name, field |-> FALSE,
     type |-> Named(name)]

\* types.Id: an exported name is its own id, another one is qualified by
\* the path of the package
Id(obj) ==
    IF IsExported(obj.name) THEN obj.name
    ELSE (IF obj.pkg = <<>> THEN <<"_">> ELSE obj.pkg) \o <<".">> \o obj.name

\* the explored package, with the import path pp:
\*     type I int
\*     func (I) F() *struct{ X, Y int }
\*     func (I) g()
\*     type Foo interface {
\*         Method() (string, func(int) struct{ X int })
\*         hidden()
\*     }
\*     type S struct { A int; b int }
\*     var X chan struct{ Z int }
\*     var Z map[string]struct{ A int }
\*     var v int
\*     func Fn(a int) int
MethodF(pp) ==
    Func("I.F", pp, <<"F">>,
         Signature(TRUE, <<>>,
            <<Var("I.F.r0", pp, <<>>, FALSE,
                  Pointer(Struct(<<Var("I.F.X", pp, <<"X">>, TRUE, Basic),
                                   Var("I.F.Y", pp, <<"Y">>, TRUE, Basic)>>)))>>))

Methodg(pp) == Func("I.g", pp, <<"g">>, Signature(TRUE, <<>>, <<>>))

MethodMethod(pp) ==
    Func("Foo.Method", pp, <<"M", "e", "t", "h", "o", "d">>,
         Signature(TRUE, <<>>,
            <<Var("Foo.Method.r0", pp, <<>>, FALSE, Basic),
              Var("Foo.Method.r1", pp, <<>>, FALSE,
                  Signature(FALSE,
                     <<Var("Foo.Method.r1.p0", pp, <<>>, FALSE, Basic)>>,
                     <<Var("Foo.Method.r1.r0", pp, <<>>, FALSE,
                           Struct(<<Var("Foo.Method.X", pp, <<"X">>, TRUE,
                                        Basic)>>))>>))>>))

Methodhidden(pp) ==
    Func("Foo.hidden", pp, <<"h", "i", "d", "d", "e", "n">>,
         Signature(TRUE, <<>>, <<>>))

FieldA(pp) == Var("S.A", pp, <<"A">>, TRUE, Basic)

Fieldb(pp) == Var("S.b", pp, <<"b">>, TRUE, Basic)

VarX(pp) ==
    Var("X", pp, <<"X">>, FALSE,
        Chan(Struct(<<Var("X.Z", pp, <<"Z">>, TRUE, Basic)>>)))

VarZ(pp) ==
    Var("Z", pp, <<"Z">>, FALSE,
        Map(Basic, Struct(<<Var("Z.A", pp, <<"A">>, TRUE, Basic)>>)))

Varv(pp) == Var("v", pp, <<"v">>, FALSE, Basic)

Parama(pp) == Var("Fn.a", pp, <<"a">>, FALSE, Basic)

FuncFn(pp) ==
    Func("Fn", pp, <<"F", "n">>,
         Signature(FALSE, <<Parama(pp)>>,
                   <<Var("Fn.r0", pp, <<>>, FALSE, Basic)>>))

\* the universe object int: its Pkg is nil
UniverseInt == TypeName("int", <<>>, <<"i", "n", "t">>)

\* a *types.Package: its path, its scope in the order of Scope.Names()
\* (sorted), and the declared methods and underlying type of its named types
Package(pp) ==
    [path  |-> pp,
     scope |-> <<FuncFn(pp), TypeName("Foo", pp, <<"F", "o", "o">>),
                 TypeName("I", pp, <<"I">>), TypeName("S", pp, <<"S">>),
                 VarX(pp), VarZ(pp), Varv(pp)>>,
     named |-> (<<"F", "o", "o">> :>
                    [methods |-> <<>>,
                     underlying |-> Interface(<<MethodMethod(pp),
                                                Methodhidden(pp)>>)])
            @@ (<<"I">> :>
                    [methods |-> <<MethodF(pp), Methodg(pp)>>,
                     underlying |-> Basic])
            @@ (<<"S">> :>
                    [methods |-> <<>>,
                     underlying |-> Struct(<<FieldA(pp), Fieldb(pp)>>)])]

\* the objects of the package that the explored callers know: those of the
\* scope, the methods, the fields, a parameter, and the universe's int
ObjectsOf(pp) ==
    Range(Package(pp).scope)
        \cup {MethodF(pp), Methodg(pp), MethodMethod(pp), Methodhidden(pp),
              FieldA(pp), Fieldb(pp), Parama(pp), UniverseInt,
              Var("I.F.X", pp, <<"X">>, TRUE, Basic),
              Var("I.F.Y", pp, <<"Y">>, TRUE, Basic),
              Var("Foo.Method.X", pp, <<"X">>, TRUE, Basic),
              Var("X.Z", pp, <<"Z">>, TRUE, Basic),
              Var("Z.A", pp, <<"A">>, TRUE, Basic)}

\* the explored import paths: "p" and "a/b"
PkgPaths == {<<"p">>, <<"a", "/", "b">>}

\* the nil types.Object
NilObject == [id |-> "nil"]

\* Scope.Lookup(name)
Lookup(pkg, name) ==
    IF \E i \in DOMAIN pkg.scope : pkg.scope[i].name = name
    THEN pkg.scope[CHOOSE i \in DOMAIN pkg.scope : pkg.scope[i].name = name]
    ELSE NilObject

\* the closure find of pathOf: the path to obj within type T, or <<>> (nil)
\* if obj is not found; findIn is its loop over the fields of a struct or
\* the methods of an interface, findAt its loop over a tuple
RECURSIVE find(_, _, _), findIn(_, _, _, _), findAt(_, _, _, _)
find(obj, path, T) ==
    CASE T.k \in {"basic", "named"} -> <<>>
      [] T.k \in {"pointer", "slice", "array", "chan"} -> find(obj, path, T.elem)
      [] T.k = "map" ->
            LET r == find(obj, Append(path, StrElem(opKey)), T.key)
            IN  IF r # <<>> THEN r
                ELSE find(obj, Append(path, StrElem(opValue)), T.elem)
      [] T.k = "signature" ->
            LET r == find(obj, Append(path, StrElem(opParams)), T.params)
            IN  IF r # <<>> THEN r
                ELSE find(obj, Append(path, StrElem(opResults)), T.results)
      [] T.k = "struct" -> findIn(obj, path, T.fields, 1)
      [] T.k = "tuple" -> findAt(obj, path, T.vars, 1)
      [] T.k = "interface" -> findIn(obj, path, T.methods, 1)

findIn(obj, path, members, i) ==
    IF i > Len(members) THEN <<>>
    ELSE LET f == members[i]
             path2 == Append(path, StrElem(Id(f)))
         IN  IF f.id = obj.id THEN path2
             ELSE LET r == find(obj, path2, f.type)
                  IN  IF r # <<>> THEN r ELSE findIn(obj, path, members, i + 1)

findAt(obj, path, vs, i) ==
    IF i > Len(vs) THEN <<>>
    ELSE LET r == find(obj, Append(path, IntElem(i - 1)), vs[i].type)
         IN  IF r # <<>> THEN r ELSE findAt(obj, path, vs, i + 1)

\* the first loop of pathOf, over the names of the scope whose object has a
\* named type: the declared methods, then the underlying type
RECURSIVE pathOfNamed(_, _, _)
pathOfNamed(pkg, obj, i) ==
    IF i > Len(pkg.scope) THEN <<>>
    ELSE LET o == pkg.scope[i]
         IN  IF o.type.k # "named" THEN pathOfNamed(pkg, obj, i + 1)
             ELSE LET T == pkg.named[o.type.name]
                      path == <<StrElem(o.name)>>
                      m == findIn(obj, path, T.methods, 1)
                      u == find(obj, Append(path, StrElem(opUnderlying)),
                                T.underlying)
                  IN  IF m # <<>> THEN m
                      ELSE IF u # <<>> THEN u
                      ELSE pathOfNamed(pkg, obj, i + 1)

\* the second loop of pathOf, over the other objects of the scope
RECURSIVE pathOfOthers(_, _, _)
pathOfOthers(pkg, obj, i) ==
    IF i > Len(pkg.scope) THEN <<>>
    ELSE LET o == pkg.scope[i]
             r == IF o.type.k = "named" THEN <<>>
                  ELSE find(obj, <<StrElem(o.name)>>, o.type)
         IN  IF r # <<>> THEN r ELSE pathOfOthers(pkg, obj, i + 1)

\* pathOf(obj), where pkg is obj.Pkg(): the elements of the path, or an error
pathOf(pkg, obj) ==
    IF obj.pkg = <<>>
    THEN [ok |-> FALSE, path |-> <<>>, err |-> "universal objects have no path"]
    ELSE IF Lookup(pkg, obj.name).id = obj.id
    THEN [ok |-> TRUE, path |-> <<StrElem(obj.name)>>, err |-> ""]
    ELSE IF obj.class = "var" /\ ~obj.field
    THEN [ok |-> FALSE, path |-> <<>>, err |-> "var is not a field"]
    ELSE IF obj.class = "func" /\ ~obj.type.recv
    THEN [ok |-> FALSE, path |-> <<>>, err |-> "func is not a method"]
    ELSE IF obj.class \notin {"var", "func"}
    THEN [ok |-> FALSE, path |-> <<>>,
          err |-> "not a package-level object, nor a field or method"]
    ELSE LET r1 == pathOfNamed(pkg, obj, 1)
             r2 == pathOfOthers(pkg, obj, 1)
         IN  IF r1 # <<>> THEN [ok |-> TRUE, path |-> r1, err |-> ""]
             ELSE IF r2 # <<>> THEN [ok |-> TRUE, path |-> r2, err |-> ""]
             ELSE [ok |-> FALSE, path |-> <<>>, err |-> "can't find path"]

\* the loop of Of that prints the elements, separated by dots
RECURSIVE Join(_, _)
Join(path, i) ==
    IF i > Len(path) THEN <<>>
    ELSE (IF i > 1 THEN <<".">> ELSE <<>>) \o Fprint(path[i]) \o Join(path, i + 1)

\* Of(obj): the Path (a string) of obj, or an error
Of(pkg, obj) ==
    LET r == pathOf(pkg, obj)
    IN  IF r.ok THEN [ok |-> TRUE, path |-> Join(r.path, 1), err |-> ""]
        ELSE [ok |-> FALSE, path |-> <<>>, err |-> r.err]

\* parse(s): the elements of a dotted path, or an error
RECURSIVE parseWords(_, _)
parseWords(words, i) ==
    IF i > Len(words) THEN [ok |-> TRUE, path |-> <<>>]
    ELSE LET word == words[i]
             rest == parseWords(words, i + 1)
             elem == IF Atoi(word).ok THEN IntElem(Atoi(word).n)
                     ELSE StrElem(word)
             isOp == word \in {opKey, opValue, opParams, opResults, opUnderlying}
         IN  IF ~Atoi(word).ok /\ ~isOp /\ ~validIdent(word)
             THEN [ok |-> FALSE, path |-> <<>>]
             ELSE IF rest.ok THEN [ok |-> TRUE, path |-> <<elem>> \o rest.path]
             ELSE rest

parse(s) == parseWords(Split(s, <<>>), 1)

\* the results of FindObject: an object, an error, or a panic of the
\* goroutine
Found(obj) == [kind |-> "object", id |-> obj.id, what |-> ""]

FindErr(what) == [kind |-> "error", id |-> "nil", what |-> what]

FindPanic(what) == [kind |-> "panic", id |-> "nil", what |-> what]

IsStr(path) == path[1].t = "string"

\* the closure find of FindObject; findMember is its loop over the methods
\* of a named type (compared by Name), the fields of a struct or the
\* methods of an interface (compared by Id)
RECURSIVE findObj(_, _, _), findMember(_, _, _, _, _, _)
findObj(pkg, path, T) ==
    CASE T.k \in {"pointer", "slice", "array", "chan"} -> findObj(pkg, path, T.elem)
      [] T.k = "basic" -> FindErr("unexpected basic type")
      [] T.k = "map" ->
            IF Len(path) = 0 THEN FindErr("in map: bad path")
            ELSE IF IsStr(path) /\ path[1].v = opKey
            THEN findObj(pkg, Tail(path), T.key)
            ELSE IF IsStr(path) /\ path[1].v = opValue
            THEN findObj(pkg, Tail(path), T.elem)
            ELSE FindErr("in map: unexpected path element")
      [] T.k = "named" ->
            IF Len(path) = 0 THEN FindErr("in named: bad path")
            ELSE IF ~IsStr(path) THEN FindErr("in named: want method name")
            ELSE IF path[1].v = opUnderlying
            THEN findObj(pkg, Tail(path), pkg.named[T.name].underlying)
            ELSE findMember(pkg, Tail(path), pkg.named[T.name].methods, 1,
                            path[1].v, "named")
      [] T.k = "struct" ->
            IF Len(path) = 0 THEN FindErr("in struct: empty path")
            ELSE IF ~IsStr(path) THEN FindErr("in struct: want field name")
            ELSE findMember(pkg, Tail(path), T.fields, 1, path[1].v, "struct")
      [] T.k = "tuple" ->
            IF Len(path) = 0 THEN FindErr("in map: empty path")
            ELSE IF IsStr(path) THEN FindErr("in named: want index")
            ELSE IF path[1].v >= Len(T.vars)
            THEN FindErr("in tuple: index out of range")
            ELSE IF path[1].v < 0
            THEN FindPanic("Tuple.At: index out of range")
            ELSE findObj(pkg, Tail(path), T.vars[path[1].v + 1].type)
      [] T.k = "interface" ->
            IF Len(path) = 0 THEN FindErr("in interface: empty path")
            ELSE IF ~IsStr(path) THEN FindErr("in interface: want method name")
            ELSE findMember(pkg, Tail(path), T.methods, 1, path[1].v, "interface")
      [] T.k = "signature" ->
            IF Len(path) = 0 THEN FindErr("in func: empty path")
            ELSE IF ~IsStr(path) THEN FindErr("in func: want params/results")
            ELSE IF path[1].v = opParams THEN findObj(pkg, Tail(path), T.params)
            ELSE IF path[1].v = opResults THEN findObj(pkg, Tail(path), T.results)
            ELSE FindErr("in signature: unexpected path element")

findMember(pkg, path, members, i, name, where) ==
    IF i > Len(members)
    THEN FindErr(IF where = "named" THEN "named type has no method"
                 ELSE IF where = "struct" THEN "in struct: no field"
                 ELSE "in interface: no method")
    ELSE LET m == members[i]
             key == IF where = "named" THEN m.name ELSE Id(m)
         IN  IF key # name THEN findMember(pkg, path, members, i + 1, name, where)
             ELSE IF Len(path) = 0 THEN Found(m)
             ELSE findObj(pkg, path, m.type)

\* FindObject(pkg, p)
FindObject(pkg, p) ==
    LET r == parse(p)
    IN  IF ~r.ok THEN FindErr("invalid path: not an identifier")
        ELSE IF Len(r.path) = 0 THEN FindErr("empty path")
        ELSE IF ~IsStr(r.path)
        THEN FindPanic("interface conversion: interface {} is int, not string")
        ELSE LET obj == Lookup(pkg, r.path[1].v)
             IN  IF obj.id = "nil" THEN FindErr("not defined")
                 ELSE IF Len(r.path) = 1 THEN Found(obj)
                 ELSE findObj(pkg, Tail(r.path), obj.type)

----------------------------------------------------------------------------
(* State. *)

VARIABLES
    cfg,     \* the arguments of Run: analyses, loaded packages, flags
    phase,   \* position of checker.Run: "load", "exec", "print", "done"
    heap,    \* the actions allocated by analyze, in allocation order
    roots,   \* the slice of root actions returned by analyze
    stage,   \* per action: its once latch and its position in execOnce
    gor,     \* the calls of work(act) made by execAll, by call site
    runs,    \* per action: the number of invocations of Analysis.Run
    err,     \* per action: act.err
    unit,    \* per action: act.unit (Inputs, Output, Findings) once created
    lemmas,  \* per action: act.objLemmas and act.pkgLemmas
    out      \* what printFindings wrote

vars == <<cfg, phase, heap, roots, stage, gor, runs, err, unit, lemmas, out>>

\* act.unit before execOnce reaches line 550
\* (ret records the error the Run callback returned)
NoUnit ==
    [made |-> FALSE, Inputs |-> <<>>, Output |-> NilOutput, Findings |-> <<>>,
     ret |-> NilErr]

NoOut == [JSON |-> FALSE, stdout |-> <<>>, stderr |-> <<>>, tree |-> <<>>]

----------------------------------------------------------------------------
(* The inputs of a run. *)

\* the Requires lists the analyses may declare: any order, no cycle
RequiresChoices ==
    {r \in [Analyses -> Orderings(Analyses)] :
        Acyclic([a \in Analyses |-> Range(r[a])], Analyses)}

\* the import graphs the loader may return: no cycle
ImportsChoices ==
    {m \in [Pkgs -> SUBSET Pkgs] : Acyclic(m, Pkgs)}

LemmaTypeLists == {<<>>, <<"isWrapper">>}

\* the declared OutputType of each analysis: analysis 1 declares an output
\* type (as inspect, ctrlflow, buildssa do), analysis 2 declares none
OutputTypes == (1 :> "T") @@ [a \in Analyses |-> "nil"]

----------------------------------------------------------------------------
(* analyze: construction of the action graph. *)

\* act.String(): "analysis@package"
Name(act) == <<act.a, act.pkg>>

\* mkAction threads st = [actions |-> the map key -> action,
\*                        heap    |-> the actions allocated so far];
\* an action is referred to by its index in heap
RECURSIVE mkAction(_, _, _, _), mkDeps(_, _, _, _, _)

\* the two loops of mkAction that append mkAction(...) to act.deps
mkDeps(c, st, keys, i, deps) ==
    IF i > Len(keys) THEN [st |-> st, deps |-> deps]
    ELSE LET r == mkAction(c, st, keys[i][1], keys[i][2])
         IN  mkDeps(c, r.st, keys, i + 1, Append(deps, r.act))

\* faulty variant: vertical edges for every analysis
NeedsImportsAlways(c, a) == TRUE

\* whether mkAction adds the vertical edges
NeedsImports(c, a) == Len(c.LemmaTypes[a]) > 0

\* faulty variant: the map of actions is not consulted
MemoizedNever(st, k) == FALSE

\* act, ok := actions[k]
Memoized(st, k) == k \in DOMAIN st.actions

mkAction(c, st, a, pkg) ==
    LET k == <<a, pkg>> IN
    IF Memoized(st, k)
    THEN [st |-> st, act |-> st.actions[k]]
    ELSE LET req   == c.Requires[a]
             paths == IF NeedsImports(c, a) THEN SortedSeq(c.Imports[pkg]) ELSE <<>>
             keys  == [i \in DOMAIN req |-> <<req[i], pkg>>]
                          \o [i \in DOMAIN paths |-> <<a, paths[i]>>]
             r     == mkDeps(c, st, keys, 1, <<>>)
             id    == Len(r.st.heap) + 1
             act   == [a |-> a, pkg |-> pkg, deps |-> r.deps, isroot |-> FALSE]
         IN  [st  |-> [actions |-> (k :> id) @@ r.st.actions,
                       heap    |-> Append(r.st.heap, act)],
              act |-> id]

\* the (analysis, package) pairs of the loop that builds the roots
RootPairs(c) ==
    [n \in 1..(Len(c.analyses) * Len(c.initial)) |->
        <<c.analyses[((n - 1) \div Len(c.initial)) + 1],
          c.initial[((n - 1) % Len(c.initial)) + 1]>>]

\* root.isroot = true
MarkRoot(h, id) == [h EXCEPT ![id].isroot = TRUE]

RECURSIVE mkRoots(_, _, _, _, _)
mkRoots(c, st, pairs, i, rs) ==
    IF i > Len(pairs) THEN [heap |-> st.heap, roots |-> rs]
    ELSE LET r == mkAction(c, st, pairs[i][1], pairs[i][2])
         IN  mkRoots(c, [r.st EXCEPT !.heap = MarkRoot(r.st.heap, r.act)],
                     pairs, i + 1, Append(rs, r.act))

\* the graph analyze builds before it calls execAll(roots)
Graph(c) == mkRoots(c, [actions |-> <<>>, heap |-> <<>>], RootPairs(c), 1, <<>>)

----------------------------------------------------------------------------
(* The inputs of a run that are explored. *)

\* the slices passed to Run and returned by the loader, in ascending order
Sublists(S) == {SortedSeq(T) : T \in SUBSET S \ {{}}}

\* the analyses and the packages that occur in the graph of c
UsedAnalyses(c) == {Graph(c).heap[n].a : n \in DOMAIN Graph(c).heap}

UsedPkgs(c) == {Graph(c).heap[n].pkg : n \in DOMAIN Graph(c).heap}

\* Inputs that differ only in what the program never reads behave alike,
\* and one of them is explored: the program reads the descriptor of an
\* analysis and the IllTyped bit of a package only if they occur in the
\* graph, the Imports of such a package only for an analysis with
\* LemmaTypes, and RunDespiteErrors only for an ill-typed package.
Canonical(c) ==
    /\ \A a \in Analyses \ UsedAnalyses(c) :
          c.Requires[a] = <<>> /\ c.LemmaTypes[a] = <<>>
    /\ \A p \in Pkgs :
          (p \notin UsedPkgs(c) \/ \A a \in UsedAnalyses(c) : c.LemmaTypes[a] = <<>>)
              => c.Imports[p] = {}
    /\ \A p \in Pkgs \ UsedPkgs(c) : ~c.IllTyped[p]
    /\ \A a \in Analyses :
          (a \notin UsedAnalyses(c) \/ \A p \in Pkgs : ~c.IllTyped[p])
              => ~c.RunDespiteErrors[a]

Configs ==
    {c \in [Requires         : RequiresChoices,
            LemmaTypes       : [Analyses -> LemmaTypeLists],
            RunDespiteErrors : [Analyses -> BOOLEAN],
            OutputType       : {OutputTypes},
            Imports          : ImportsChoices,
            IllTyped         : [Pkgs -> BOOLEAN],
            analyses         : Sublists(Analyses),
            initial          : Sublists(Pkgs),
            sequential       : BOOLEAN] :
        /\ Len(c.analyses) * Len(c.initial) <= MaxRoots
        /\ Cardinality({p \in Pkgs : c.IllTyped[p]}) <= MaxIllTyped
        /\ Canonical(c)}

----------------------------------------------------------------------------
(* execAll, action.exec, action.execOnce. *)

\* A call of work(act) is named by its call site: <<0, i>> is the call for
\* the i-th root made by execAll(roots), <<n, i>> the call for the i-th
\* dependency made by execAll(act.deps) in action n. Its state is
\*   "none"     execAll has not reached it
\*   "spawned"  started (parallel) or next in the loop (sequential)
\*   "running"  inside act.once.Do, executing execOnce
\*   "blocked"  inside act.once.Do, waiting for the execution in flight
\*   "returned" act.exec() returned and wg.Done() was called
CallSites(h, rs) ==
    {<<0, i>> : i \in DOMAIN rs}
        \cup UNION {{<<n, i>> : i \in DOMAIN h[n].deps} : n \in DOMAIN h}

Callee(g) == IF g[1] = 0 THEN roots[g[2]] ELSE heap[g[1]].deps[g[2]]

\* execAll's loop: in parallel mode every call is started at once; in
\* sequential mode work(act) is called inline, so a call begins only when
\* the calls before it in the slice have returned
InTurn(g) ==
    cfg.sequential => \A j \in 1..(g[2] - 1) : gor[<<g[1], j>>] = "returned"

Spawn(gr, parent) ==
    [s \in DOMAIN gr |-> IF s[1] = parent THEN "spawned" ELSE gr[s]]

\* faulty variant: a WaitGroup whose counter never returns to zero
DepsJoinedNever(n) == heap[n].deps = <<>>

\* faulty variant: a wait that is over when the first call has returned
DepsJoinedFirst(n) ==
    \A i \in DOMAIN heap[n].deps : i = 1 => gor[<<n, i>>] = "returned"

\* wg.Wait() of execAll(act.deps) in action n has returned
DepsJoined(n) == \A i \in DOMAIN heap[n].deps : gor[<<n, i>>] = "returned"

\* faulty variant: a latch that admits a second caller while the first is running
OnceUnlocked(n) == IF stage[n] = "done" THEN "done" ELSE "fresh"

\* the state of act.once
Once(n) ==
    CASE stage[n] = "fresh" -> "fresh"
      [] stage[n] = "done"  -> "done"
      [] OTHER              -> "running"

NameLess(x, y) == x[1] < y[1] \/ (x[1] = y[1] /\ x[2] < y[2])

\* sort.Strings
RECURSIVE SortStrings(_)
SortStrings(s) ==
    IF s = <<>> THEN <<>>
    ELSE LET m == CHOOSE i \in DOMAIN s :
                    /\ \A j \in DOMAIN s : ~NameLess(s[j], s[i])
                    /\ \A j \in 1..(i - 1) : NameLess(s[i], s[j])
             rest == [j \in 1..(Len(s) - 1) |-> IF j < m THEN s[j] ELSE s[j + 1]]
         IN  <<s[m]>> \o SortStrings(rest)

\* faulty variant: only the first dependency is inspected
FailedDepsFirst(n) ==
    IF heap[n].deps # <<>> /\ err[heap[n].deps[1]] # NilErr
    THEN <<Name(heap[heap[n].deps[1]])>>
    ELSE <<>>

\* the names of the dependencies whose err is not nil, in deps order
FailedDeps(n) ==
    LET bad == SelectSeq(heap[n].deps, LAMBDA d : err[d] # NilErr)
    IN  [i \in DOMAIN bad |-> Name(heap[bad[i]])]

\* faulty variant: the names in the order of act.deps
FailedPrerequisitesUnsorted(failed) == PrereqErr(failed)

\* the error execOnce reports when a dependency failed
FailedPrerequisites(failed) == PrereqErr(SortStrings(failed))

\* faulty variant: the output of every dependency is plumbed, whatever its package
RECURSIVE PlumbInputsAll(_, _, _)
PlumbInputsAll(n, i, inputs) ==
    IF i > Len(heap[n].deps) THEN inputs
    ELSE LET d == heap[n].deps[i]
         IN  PlumbInputsAll(n, i + 1, (heap[d].a :> unit[d].Output) @@ inputs)

\* the loop that plumbs the outputs of the horizontal dependencies
RECURSIVE PlumbInputs(_, _, _)
PlumbInputs(n, i, inputs) ==
    IF i > Len(heap[n].deps) THEN inputs
    ELSE LET d == heap[n].deps[i] IN
         IF heap[d].pkg = heap[n].pkg
         THEN PlumbInputs(n, i + 1, (heap[d].a :> unit[d].Output) @@ inputs)
         ELSE PlumbInputs(n, i + 1, inputs)

\* the objects of a package that a Run sets lemmas on: an exported and an
\* unexported package-level function (*types.Func without receiver)
Objects(pkg) ==
    {Func("F", pkg, <<"F">>, Signature(FALSE, <<>>, <<>>)),
     Func("f", pkg, <<"f">>, Signature(FALSE, <<>>, <<>>))}

\* exportedFrom(obj, pkg): whether obj may be visible to a package that
\* imports pkg
exportedFromAll(obj, pkg) == TRUE

exportedFrom(obj, pkg) ==
    CASE obj.class = "func" ->
            (IsExported(obj.name) /\ obj.pkg = pkg) \/ obj.type.recv
      [] obj.class = "var" ->
            (IsExported(obj.name) /\ obj.pkg = pkg) \/ obj.field
      [] obj.class \in {"type", "const"} -> TRUE
      [] OTHER -> FALSE

\* faulty variant: of the package lemmas of dep only those of dep's own
\* package are copied
inheritLemmasDirect(l, d) ==
    LET visible == {k \in DOMAIN lemmas[d].obj : exportedFrom(k[1], heap[d].pkg)}
        own == {k \in DOMAIN lemmas[d].pkg : k[1] = heap[d].pkg}
    IN  [obj |-> [k \in visible |-> lemmas[d].obj[k]] @@ l.obj,
         pkg |-> [k \in own |-> lemmas[d].pkg[k]] @@ l.pkg]

\* inheritLemmas(act, dep): l is act's maps so far, the result act's maps
\* with the lemmas of dep d copied into them
inheritLemmas(l, d) ==
    LET visible == {k \in DOMAIN lemmas[d].obj : exportedFrom(k[1], heap[d].pkg)}
    IN  [obj |-> [k \in visible |-> lemmas[d].obj[k]] @@ l.obj,
         pkg |-> lemmas[d].pkg @@ l.pkg]

\* the branch of the plumbing loop that inherits the lemmas of the
\* vertical dependencies
RECURSIVE PlumbLemmas(_, _, _)
PlumbLemmas(n, i, l) ==
    IF i > Len(heap[n].deps) THEN l
    ELSE LET d == heap[n].deps[i] IN
         IF heap[d].pkg # heap[n].pkg /\ heap[d].a = heap[n].a
         THEN PlumbLemmas(n, i + 1, inheritLemmas(l, d))
         ELSE PlumbLemmas(n, i + 1, l)

\* act.setObjLemma(obj, lemma) and act.setPkgLemma(lemma) called by the Run
\* of action n with a lemma of type t
setObjLemma(l, n, obj, t) == [l EXCEPT !.obj = (<<obj, t>> :> n) @@ @]

setPkgLemma(l, n, t) == [l EXCEPT !.pkg = (<<heap[n].pkg, t>> :> n) @@ @]

\* a Run that sets a lemma of its first type on each object of its package
\* and on the package
RECURSIVE SetObjLemmas(_, _, _, _)
SetObjLemmas(l, n, objs, t) ==
    IF objs = {} THEN l
    ELSE LET o == CHOOSE x \in objs : TRUE
         IN  SetObjLemmas(setObjLemma(l, n, o, t), n, objs \ {o}, t)

SetLemmas(l, n) ==
    LET t == cfg.LemmaTypes[heap[n].a][1]
    IN  setPkgLemma(SetObjLemmas(l, n, Objects(heap[n].pkg), t), n, t)

\* faulty variant: RunDespiteErrors is ignored
SkippedAlways(n) == cfg.IllTyped[heap[n].pkg]

\* whether execOnce skips Run because of type errors
Skipped(n) == cfg.IllTyped[heap[n].pkg] /\ ~cfg.RunDespiteErrors[heap[n].a]

\* faulty variant: an Output that was left nil passes the check
CheckOutputLax(n, e, output) ==
    IF e = NilErr /\ output.type # "nil" /\ output.type # cfg.OutputType[heap[n].a]
    THEN InternalErr
    ELSE e

\* the check of the Output's type after a Run that returned nil
CheckOutput(n, e, output) ==
    IF e = NilErr /\ output.type # cfg.OutputType[heap[n].a]
    THEN InternalErr
    ELSE e

Init ==
    /\ cfg \in Configs
    /\ phase = "load"
    /\ heap = <<>>
    /\ roots = <<>>
    /\ stage = <<>>
    /\ gor = <<>>
    /\ runs = <<>>
    /\ err = <<>>
    /\ unit = <<>>
    /\ lemmas = <<>>
    /\ out = NoOut

\* Run up to the call of execAll(roots), whose loop starts the root calls
Analyze ==
    /\ phase = "load"
    /\ LET g == Graph(cfg) IN
         /\ heap' = g.heap
         /\ roots' = g.roots
         /\ stage' = [n \in DOMAIN g.heap |-> "fresh"]
         /\ runs' = [n \in DOMAIN g.heap |-> 0]
         /\ err' = [n \in DOMAIN g.heap |-> NilErr]
         /\ unit' = [n \in DOMAIN g.heap |-> NoUnit]
         /\ lemmas' = [n \in DOMAIN g.heap |-> NoLemmas]
         /\ gor' = [s \in CallSites(g.heap, g.roots) |->
                        IF s[1] = 0 THEN "spawned" ELSE "none"]
    /\ phase' = "exec"
    /\ UNCHANGED <<cfg, out>>

\* once.Do(f) called by g for action n: it either begins f, which starts
\* with execAll of the dependencies, or waits, or returns at once
OnceDo(g, n) ==
    CASE Once(n) = "fresh" ->
           /\ stage' = [stage EXCEPT ![n] = "deps"]
           /\ gor' = Spawn([gor EXCEPT ![g] = "running"], n)
      [] Once(n) = "running" ->
           /\ gor' = [gor EXCEPT ![g] = "blocked"]
           /\ UNCHANGED stage
      [] Once(n) = "done" ->
           /\ gor' = [gor EXCEPT ![g] = "returned"]
           /\ UNCHANGED stage

\* work(act) calls act.exec(), that is act.once.Do(act.execOnce)
Exec(g) ==
    /\ phase = "exec"
    /\ gor[g] = "spawned"
    /\ InTurn(g)
    /\ OnceDo(g, Callee(g))
    /\ UNCHANGED <<cfg, phase, heap, roots, runs, err, unit, lemmas, out>>

\* a call that waited in once.Do returns when the execution has finished
Unblock(g) ==
    /\ phase = "exec"
    /\ gor[g] = "blocked"
    /\ Once(Callee(g)) = "done"
    /\ gor' = [gor EXCEPT ![g] = "returned"]
    /\ UNCHANGED <<cfg, phase, heap, roots, stage, runs, err, unit, lemmas, out>>

\* execOnce returns: act.err is set, the once is done, and the call that
\* ran it calls wg.Done()
Finish(n, e, u) ==
    /\ err' = [err EXCEPT ![n] = e]
    /\ unit' = [unit EXCEPT ![n] = u]
    /\ stage' = [stage EXCEPT ![n] = "done"]
    /\ gor' = [s \in DOMAIN gor |->
                  IF gor[s] = "running" /\ Callee(s) = n THEN "returned" ELSE gor[s]]

\* execOnce from the return of execAll(act.deps) to the call of Run
Body(n) ==
    /\ phase = "exec"
    /\ stage[n] = "deps"
    /\ DepsJoined(n)
    /\ LET failed == FailedDeps(n)
           u == [NoUnit EXCEPT !.made = TRUE, !.Inputs = PlumbInputs(n, 1, <<>>)]
           l == PlumbLemmas(n, 1, NoLemmas)
       IN  IF failed # <<>>
           THEN Finish(n, FailedPrerequisites(failed), unit[n])
                    /\ UNCHANGED <<runs, lemmas>>
           ELSE /\ lemmas' = [lemmas EXCEPT ![n] = l]
                /\ IF Skipped(n)
                   THEN Finish(n, SkippedErr, u) /\ UNCHANGED runs
                   ELSE /\ stage' = [stage EXCEPT ![n] = "run"]
                        /\ runs' = [runs EXCEPT ![n] = @ + 1]
                        /\ unit' = [unit EXCEPT ![n] = u]
                        /\ UNCHANGED <<err, gor>>
    /\ UNCHANGED <<cfg, phase, heap, roots, out>>

\* the Run calls so far that returned an error or a mistyped Output
Faults == Cardinality({n \in DOMAIN heap : err[n].kind \in FaultKinds})

\* the Run calls so far that reported findings
Reporting == Cardinality({n \in DOMAIN heap : unit[n].Findings # <<>>})

\* Run returns, with an error or with an Output and with the Findings of
\* its choice, having set lemmas of the type its analysis declares, if any
Returning(n, lists, reports) ==
    /\ phase = "exec"
    /\ stage[n] = "run"
    /\ \E e \in {NilErr, RunErr}, t \in DynamicTypes, fs \in lists :
         LET sets == cfg.LemmaTypes[heap[n].a] # <<>>
             output == [type |-> t, val |-> IF t = "nil" THEN 0 ELSE n]
             u == [unit[n] EXCEPT !.Output = output, !.Findings = fs, !.ret = e]
             e2 == CheckOutput(n, e, output)
         IN  /\ e = RunErr => t = "nil"
             /\ e2 # NilErr => Faults < MaxFaults
             /\ fs # <<>> => Reporting < reports
             /\ lemmas' = [lemmas EXCEPT ![n] = IF sets THEN SetLemmas(@, n) ELSE @]
             /\ Finish(n, e2, u)
    /\ UNCHANGED <<cfg, phase, heap, roots, runs, out>>

RunReturn(n) == Returning(n, FindingLists, MaxFindings)

\* wg.Wait() of execAll(roots) returns, and analyze with it
ExecAllDone ==
    /\ phase = "exec"
    /\ \A i \in DOMAIN roots : gor[<<0, i>>] = "returned"
    /\ phase' = "print"
    /\ UNCHANGED <<cfg, heap, roots, stage, gor, runs, err, unit, lemmas, out>>

----------------------------------------------------------------------------
(* printFindings. *)

\* The traversal threads st = [printed |-> the set of visited actions,
\*                             seen    |-> the keys of the findings printed,
\*                             out     |-> what was written so far].

\* a line of standard output; act records the action it was printed for
FindingLine(act, f) ==
    [act |-> act, posn |-> f.pos, class |-> <<heap[act].a, f.category>>,
     message |-> f.message]

\* faulty variant: the key names the action
SeenKeyPerAction(act, f) == <<act, f.pos, heap[act].a, <<heap[act].a, f.category>>, f.message>>

\* the key of the seen map of the plain text output
SeenKey(act, f) == <<f.pos, heap[act].a, <<heap[act].a, f.category>>, f.message>>

\* faulty variant: findings are printed for every action
PrintsFindingsAll(act) == TRUE

\* whether print reports the findings of act
PrintsFindings(act) == heap[act].isroot

\* the loop over act.unit.Findings of the plain text print
RECURSIVE printText(_, _, _)
printText(act, i, st) ==
    IF i > Len(unit[act].Findings) THEN st
    ELSE LET f == unit[act].Findings[i] IN
         IF SeenKey(act, f) \in st.seen
         THEN printText(act, i + 1, st)
         ELSE printText(act, i + 1,
                 [st EXCEPT !.seen = @ \cup {SeenKey(act, f)},
                            !.out.stdout = Append(@, FindingLine(act, f))])

\* faulty variant: errors are reported for root actions only
JSONEntryRoots(act) ==
    IF ~heap[act].isroot THEN {}
    ELSE IF err[act] # NilErr
    THEN {[error |-> err[act], findings |-> <<>>]}
    ELSE IF unit[act].Findings # <<>>
    THEN {[error |-> NilErr, findings |-> unit[act].Findings]}
    ELSE {}

\* the entry the JSON print adds to m for act, if any
JSONEntry(act) ==
    IF err[act] # NilErr
    THEN {[error |-> err[act], findings |-> <<>>]}
    ELSE IF PrintsFindings(act) /\ unit[act].Findings # <<>>
    THEN {[error |-> NilErr, findings |-> unit[act].Findings]}
    ELSE {}

print(json, act, st) ==
    IF json
    THEN LET id == heap[act].pkg
             existing == id \in DOMAIN st.out.tree
             m == IF existing THEN st.out.tree[id] ELSE <<>>
             m2 == IF JSONEntry(act) = {} THEN m
                   ELSE (heap[act].a :> (CHOOSE e \in JSONEntry(act) : TRUE)) @@ m
         IN  IF existing \/ DOMAIN m2 # {}
             THEN [st EXCEPT !.out.tree = (id :> m2) @@ @]
             ELSE st
    ELSE IF err[act] # NilErr
    THEN [st EXCEPT !.out.stderr = Append(@, [name |-> heap[act].a, err |-> err[act]])]
    ELSE IF PrintsFindings(act)
    THEN printText(act, 1, st)
    ELSE st

RECURSIVE visitAll(_, _, _, _)
visitAll(json, actions, i, st) ==
    IF i > Len(actions) THEN st
    ELSE LET act == actions[i] IN
         IF act \in st.printed
         THEN visitAll(json, actions, i + 1, st)
         ELSE LET st1 == [st EXCEPT !.printed = @ \cup {act}]
                  st2 == visitAll(json, heap[act].deps, 1, st1)
              IN  visitAll(json, actions, i + 1, print(json, act, st2))

\* Run prints the results and returns; JSON is the -json flag
PrintFindings ==
    /\ phase = "print"
    /\ \E json \in BOOLEAN :
         out' = visitAll(json, roots, 1,
                         [printed |-> {}, seen |-> {},
                          out |-> [NoOut EXCEPT !.JSON = json]]).out
    /\ phase' = "done"
    /\ UNCHANGED <<cfg, heap, roots, stage, gor, runs, err, unit, lemmas>>

Next ==
    \/ Analyze
    \/ \E g \in DOMAIN gor : Exec(g)
    \/ \E g \in DOMAIN gor : Unblock(g)
    \/ \E n \in DOMAIN heap : Body(n)
    \/ \E n \in DOMAIN heap : RunReturn(n)
    \/ ExecAllDone
    \/ PrintFindings

Spec == Init /\ [][Next]_vars

----------------------------------------------------------------------------
(* The compile-protocol driver (the doctor): one type-checked package and  *)
(* one action per analysis, executed by the closures exec and execAll.     *)

\* registerLemmas(a): whether a, or an analysis it requires, has LemmaTypes
RECURSIVE registerLemmas(_, _)
registerLemmas(c, a) ==
    \/ Len(c.LemmaTypes[a]) > 0
    \/ \E i \in DOMAIN c.Requires[a] : registerLemmas(c, c.Requires[a][i])

\* the keys of the actions map when the loop over analyses has ended
Registered(c) ==
    ReachFrom([a \in Analyses |-> Range(c.Requires[a])], Range(c.analyses),
              Cardinality(Analyses))

\* the analyses kept by the loop: in VetxOnly mode only those that use lemmas
Filtered(c) ==
    SelectSeq(c.analyses, LAMBDA a : registerLemmas(c, a) \/ ~c.VetxOnly)

DoctorConfigs ==
    [Requires   : RequiresChoices,
     LemmaTypes : [Analyses -> LemmaTypeLists],
     analyses   : Sublists(Analyses),
     VetxOnly   : BOOLEAN]

\* the doctor after the package was parsed and type-checked; phase is
\* "checked", "execAll", "exit", or "fatal" after log.Fatal
DoctorInit ==
    /\ cfg \in DoctorConfigs
    /\ phase = "checked"
    /\ heap = <<>>
    /\ roots = <<>>
    /\ stage = <<>>
    /\ gor = <<>>
    /\ runs = <<>>
    /\ err = <<>>
    /\ unit = <<>>
    /\ lemmas = <<>>
    /\ out = NoOut

\* the actions map is filled and execAll(analyses) starts its calls; an
\* action is named by its analysis, its deps are the analysis's Requires
DoctorRegister ==
    /\ phase = "checked"
    /\ LET h == [a \in Registered(cfg) |->
                    [a |-> a, deps |-> cfg.Requires[a],
                     usesLemmas |-> registerLemmas(cfg, a)]]
       IN  /\ heap' = h
           /\ roots' = Filtered(cfg)
           /\ stage' = [a \in DOMAIN h |-> "fresh"]
           /\ runs' = [a \in DOMAIN h |-> 0]
           /\ err' = [a \in DOMAIN h |-> NilErr]
           /\ unit' = [a \in DOMAIN h |-> NoUnit]
           /\ gor' = [s \in CallSites(h, Filtered(cfg)) |->
                          IF s[1] = 0 THEN "spawned" ELSE "none"]
    /\ phase' = "execAll"
    /\ UNCHANGED <<cfg, lemmas, out>>

\* a goroutine of execAll calls exec(a), that is act.once.Do(...)
DoctorExec(g) ==
    /\ phase = "execAll"
    /\ gor[g] = "spawned"
    /\ OnceDo(g, Callee(g))
    /\ UNCHANGED <<cfg, phase, heap, roots, runs, err, unit, lemmas, out>>

\* a call that waited in once.Do returns act.output
DoctorUnblock(g) ==
    /\ phase = "execAll"
    /\ gor[g] = "blocked"
    /\ Once(Callee(g)) = "done"
    /\ gor' = [gor EXCEPT ![g] = "returned"]
    /\ UNCHANGED <<cfg, phase, heap, roots, stage, runs, err, unit, lemmas, out>>

\* the function run by once.Do from the return of execAll(a.Requires) to
\* the call of Run: inputs[req] = exec(req), which returns the stored
\* output because the action of req has finished
DoctorBody(a) ==
    /\ phase = "execAll"
    /\ stage[a] = "deps"
    /\ DepsJoined(a)
    /\ \A i \in DOMAIN heap[a].deps : Once(heap[a].deps[i]) = "done"
    /\ LET inputs == [req \in Range(heap[a].deps) |-> unit[req].Output]
       IN  unit' = [unit EXCEPT ![a] = [NoUnit EXCEPT !.made = TRUE, !.Inputs = inputs]]
    /\ stage' = [stage EXCEPT ![a] = "run"]
    /\ runs' = [runs EXCEPT ![a] = @ + 1]
    /\ UNCHANGED <<cfg, phase, heap, roots, gor, err, lemmas, out>>

\* the lines printed for the findings of a Run
RECURSIVE DoctorPrint(_, _, _, _)
DoctorPrint(a, fs, i, lines) ==
    IF i > Len(fs) THEN lines
    ELSE DoctorPrint(a, fs, i + 1,
                     Append(lines, [act |-> a, posn |-> fs[i].pos, message |-> fs[i].message]))

\* Run returns: an error ends the process (log.Fatal); otherwise the
\* findings are printed and the Output is stored in act.output
DoctorRunReturn(a) ==
    /\ phase = "execAll"
    /\ stage[a] = "run"
    /\ \E e \in {NilErr, RunErr}, t \in DynamicTypes, fs \in FindingLists :
         LET output == [type |-> t, val |-> IF t = "nil" THEN 0 ELSE a]
             u == [unit[a] EXCEPT !.Output = output, !.Findings = fs, !.ret = e]
         IN  IF e = RunErr
             THEN /\ t = "nil" /\ fs = <<>>
                  /\ phase' = "fatal"
                  /\ UNCHANGED <<stage, gor, err, unit, out>>
             ELSE /\ fs # <<>> => Reporting < MaxFindings
                  /\ out' = [out EXCEPT !.stdout = DoctorPrint(a, fs, 1, @)]
                  /\ Finish(a, NilErr, u)
                  /\ UNCHANGED phase
    /\ UNCHANGED <<cfg, heap, roots, runs, lemmas>>

\* wg.Wait() of execAll(analyses) returns and main ends
DoctorExecAllDone ==
    /\ phase = "execAll"
    /\ \A i \in DOMAIN roots : gor[<<0, i>>] = "returned"
    /\ phase' = "exit"
    /\ UNCHANGED <<cfg, heap, roots, stage, gor, runs, err, unit, lemmas, out>>

DoctorNext ==
    \/ DoctorRegister
    \/ \E g \in DOMAIN gor : DoctorExec(g)
    \/ \E g \in DOMAIN gor : DoctorUnblock(g)
    \/ \E a \in DOMAIN heap : DoctorBody(a)
    \/ \E a \in DOMAIN heap : DoctorRunReturn(a)
    \/ DoctorExecAllDone

\* a run of either driver
DriversInit == Init \/ DoctorInit

DriversNext == Next \/ DoctorNext

Drivers == DriversInit /\ [][DriversNext]_vars

----------------------------------------------------------------------------
(* Properties. *)

Actions == DOMAIN heap

Deps(n) == Range(heap[n].deps)

\* the actions that n transitively depends on
TransDeps(n) ==
    ReachFrom([m \in Actions |-> Deps(m)], Deps(n), Len(heap))

Failed(n) == err[n] # NilErr

\* execAll(roots) has returned
Executed == phase \in {"print", "done"}

\* the action of analysis a on package pkg
ActionOf(a, pkg) == CHOOSE n \in Actions : heap[n].a = a /\ heap[n].pkg = pkg

Callers(n) == {g \in DOMAIN gor : Callee(g) = n}

\* C1: in a run of the checker and in a run of the compile-protocol
\* driver, Run is invoked at most once for every action, however many calls
\* of exec reach it; at most one call executes the function given to
\* once.Do, a call that finds the execution in flight waits, and a call
\* returns only when the action has finished and its result is stored.
C1_AtMostOnce ==
    \A n \in Actions :
        /\ runs[n] <= 1
        /\ Cardinality({g \in Callers(n) : gor[g] = "running"}) <= 1
        /\ (\E g \in Callers(n) : gor[g] = "blocked") => stage[n] # "fresh"
        /\ \A g \in Callers(n) :
              gor[g] = "returned" =>
                  /\ stage[n] = "done"
                  /\ (~Failed(n) => unit[n].made /\ runs[n] = 1)

\* an action whose Run is in flight, with a second caller waiting for it
C1_Witness ==
    \E n \in Actions : \E g, h \in Callers(n) :
        /\ stage[n] = "run"
        /\ gor[g] = "running"
        /\ gor[h] = "blocked"
        /\ heap[n].isroot
        /\ h[1] # 0

\* C2: when the Run of an action is invoked, every dependency has finished,
\* and what a finished action stored (its error, its unit with the Output,
\* its lemma maps) never changes afterwards, in parallel and in sequential
\* mode.
C2_DepsComplete ==
    /\ [](\A n \in Actions :
            stage[n] = "run" \/ runs[n] > 0 =>
                \A d \in Deps(n) : stage[d] = "done")
    /\ [][\A d \in Actions :
            stage[d] = "done" =>
                stage'[d] = "done" /\ err'[d] = err[d] /\ unit'[d] = unit[d]
                    /\ runs'[d] = runs[d] /\ lemmas'[d] = lemmas[d]]_vars

\* a Run in flight, in sequential mode, with a horizontal dependency and
\* with a vertical one whose Run set lemmas that the action inherited
C2_Witness ==
    \E n \in Actions :
        /\ stage[n] = "run"
        /\ \E d \in Deps(n) : heap[d].pkg = heap[n].pkg /\ runs[d] = 1
        /\ \E d \in Deps(n) :
              /\ heap[d].pkg # heap[n].pkg /\ runs[d] = 1
              /\ lemmas[d].obj # <<>>
              /\ lemmas[n].pkg = lemmas[d].pkg
              /\ DOMAIN lemmas[n].obj # DOMAIN lemmas[d].obj
        /\ cfg.sequential

StageRank(x) ==
    CASE x = "fresh" -> 0 [] x = "deps" -> 1 [] x = "run" -> 2 [] x = "done" -> 3

GorRank(x) ==
    CASE x = "none" -> 0 [] x = "spawned" -> 1 [] x = "blocked" -> 2
      [] x = "running" -> 2 [] x = "returned" -> 3

PhaseRank(x) ==
    CASE x = "load" -> 0 [] x = "exec" -> 1 [] x = "print" -> 2 [] x = "done" -> 3

RECURSIVE Sum(_, _)
Sum(f, S) ==
    IF S = {} THEN 0
    ELSE LET x == CHOOSE y \in S : TRUE IN f[x] + Sum(f, S \ {x})

\* how far the run has come; it is bounded by the size of the graph
Progress(ph, st, gr) ==
    PhaseRank(ph) + Sum([n \in DOMAIN st |-> StageRank(st[n])], DOMAIN st)
                  + Sum([g \in DOMAIN gr |-> GorRank(gr[g])], DOMAIN gr)

\* C3: execAll(roots) terminates: as long as it has not returned some
\* goroutine can take a step (no call waits on a latch or a WaitGroup that
\* nothing will release), every step brings the run nearer to its end, and
\* when execAll(roots) has returned every action of the graph has finished
\* and every call of work has returned.
C3_Terminates ==
    /\ [](phase = "exec" => ENABLED Next)
    /\ [](Executed =>
            /\ \A n \in Actions : stage[n] = "done"
            /\ \A g \in DOMAIN gor : gor[g] = "returned")
    /\ [][Progress(phase', stage', gor') > Progress(phase, stage, gor)]_vars

\* termination of a graph in which an action is reached by two callers and
\* another failed
C3_Witness ==
    /\ Executed
    /\ Len(heap) >= 3
    /\ \E n \in Actions : Cardinality(Callers(n)) >= 2
    /\ \E n \in Actions : Failed(n)

IsSorted(names) ==
    \A i, j \in DOMAIN names : i < j => NameLess(names[i], names[j])

\* C4: an action with a failed direct dependency finishes with the error
\* "failed prerequisites" naming exactly its failed direct dependencies in
\* ascending order, and its Run is not invoked.
C4_FailedPrerequisites ==
    \A n \in Actions :
        (stage[n] = "done" /\ \E d \in Deps(n) : Failed(d)) =>
            /\ err[n].kind = "failed prerequisites"
            /\ IsSorted(err[n].failed)
            /\ Range(err[n].failed) = {Name(heap[d]) : d \in {x \in Deps(n) : Failed(x)}}
            /\ runs[n] = 0

\* two failed dependencies that stand in act.deps in descending order
C4_Witness ==
    \E n \in Actions :
        /\ stage[n] = "done"
        /\ Len(err[n].failed) = 2
        /\ ~IsSorted(FailedDeps(n))

\* the findings of root action n are in the output
Printed(n) ==
    IF out.JSON
    THEN /\ heap[n].pkg \in DOMAIN out.tree
         /\ heap[n].a \in DOMAIN out.tree[heap[n].pkg]
         /\ out.tree[heap[n].pkg][heap[n].a].findings = unit[n].Findings
    ELSE \A i \in DOMAIN unit[n].Findings :
            \E k \in DOMAIN out.stdout :
                /\ out.stdout[k].posn = unit[n].Findings[i].pos
                /\ out.stdout[k].class = <<heap[n].a, unit[n].Findings[i].category>>
                /\ out.stdout[k].message = unit[n].Findings[i].message

\* every action that depends on a failed action fails without a Run, and
\* the findings of the successful root actions are printed
Cascade ==
    /\ Executed =>
          \A n \in Actions :
              (\E m \in TransDeps(n) : Failed(m)) => Failed(n) /\ runs[n] = 0
    /\ phase = "done" =>
          \A n \in Actions :
              (heap[n].isroot /\ ~Failed(n) /\ unit[n].Findings # <<>>) => Printed(n)

\* C5: a failed action does not stop the run: every action that depends on
\* a failed action fails without a Run; every action that depends on no
\* failed action is still executed, that is, it has finished, not with
\* "failed prerequisites", its Unit was made, and its Run was invoked once
\* unless execOnce skipped the Run for the type errors of the action's own
\* package (which makes it a failed action itself, see C6); and the
\* findings of the successful root actions are printed.
C5_Cascade ==
    /\ Cascade
    /\ Executed =>
          \A n \in Actions :
              (\A m \in TransDeps(n) : ~Failed(m)) =>
                  /\ stage[n] = "done"
                  /\ unit[n].made
                  /\ err[n].kind # "failed prerequisites"
                  /\ runs[n] = IF cfg.IllTyped[heap[n].pkg]
                                    /\ ~cfg.RunDespiteErrors[heap[n].a]
                               THEN 0 ELSE 1

\* a run with an action that failed for a dependency of a dependency, and a
\* successful root whose findings were printed
C5_Witness ==
    /\ phase = "done"
    /\ \E n \in Actions :
          /\ err[n].kind = "failed prerequisites"
          /\ \E m \in TransDeps(n) \ Deps(n) : Failed(m)
    /\ \E n \in Actions :
          heap[n].isroot /\ ~Failed(n) /\ unit[n].Findings # <<>> /\ Printed(n)

\* C6: without a failed dependency, an action on an ill-typed package whose
\* analysis does not set RunDespiteErrors fails with "analysis skipped due
\* to errors in package" and without a Run, and its dependents fail with
\* "failed prerequisites" naming it; with RunDespiteErrors, Run is invoked.
C6_SkipIllTyped ==
    \A n \in Actions :
        (stage[n] = "done" /\ cfg.IllTyped[heap[n].pkg]
            /\ \A d \in Deps(n) : ~Failed(d)) =>
            IF cfg.RunDespiteErrors[heap[n].a]
            THEN runs[n] = 1 /\ err[n] # SkippedErr
            ELSE /\ err[n] = SkippedErr
                 /\ runs[n] = 0
                 /\ \A m \in Actions :
                       (n \in Deps(m) /\ stage[m] = "done") =>
                           /\ err[m].kind = "failed prerequisites"
                           /\ Name(heap[n]) \in Range(err[m].failed)
                           /\ runs[m] = 0

\* a skipped action with a dependent that failed, beside an action of an
\* analysis with RunDespiteErrors that ran on the ill-typed package
C6_Witness ==
    \E n, m, k \in Actions :
        /\ err[n] = SkippedErr
        /\ n \in Deps(m) /\ stage[m] = "done"
        /\ cfg.IllTyped[heap[k].pkg] /\ runs[k] = 1 /\ stage[k] = "done"

\* C7: after a Run that returned no error, the action's error is an
\* internal error if the type of the Output is not the declared OutputType
\* (and its dependents fail with "failed prerequisites"), and nil if the
\* types are equal, both being absent included.
C7_OutputType ==
    \A n \in Actions :
        (stage[n] = "done" /\ runs[n] = 1 /\ unit[n].ret = NilErr) =>
            IF unit[n].Output.type = cfg.OutputType[heap[n].a]
            THEN err[n] = NilErr
            ELSE /\ err[n] = InternalErr
                 /\ \A m \in Actions :
                       (n \in Deps(m) /\ stage[m] = "done") =>
                           err[m].kind = "failed prerequisites" /\ runs[m] = 0

\* an internal error that reached a dependent, beside an analysis without
\* OutputType that left the Output nil and succeeded
C7_Witness ==
    \E n, m, k \in Actions :
        /\ err[n] = InternalErr
        /\ n \in Deps(m) /\ err[m].kind = "failed prerequisites"
        /\ stage[k] = "done" /\ runs[k] = 1 /\ err[k] = NilErr
        /\ cfg.OutputType[heap[k].a] = "nil" /\ unit[k].Output = NilOutput

\* C8: the Inputs passed to Run have one entry for each analysis in
\* Requires, holding the Output of that analysis's action on the same package.
C8_Inputs ==
    \A n \in Actions :
        runs[n] >= 1 =>
            /\ unit[n].made
            /\ DOMAIN unit[n].Inputs = Range(cfg.Requires[heap[n].a])
            /\ \A P \in DOMAIN unit[n].Inputs :
                  /\ ActionOf(P, heap[n].pkg) \in Deps(n)
                  /\ unit[n].Inputs[P] = unit[ActionOf(P, heap[n].pkg)].Output

\* a Run whose Inputs hold the Output of a horizontal dependency, while its
\* vertical dependency ran with the Output of another action as its input
C8_Witness ==
    \E n \in Actions : \E P \in Analyses :
        /\ runs[n] = 1
        /\ P \in DOMAIN unit[n].Inputs
        /\ unit[n].Inputs[P].type = "T"
        /\ \E d \in Deps(n) :
              /\ heap[d].pkg # heap[n].pkg
              /\ runs[d] = 1
              /\ unit[d].Inputs[P].type = "T"
              /\ unit[d].Inputs[P] # unit[n].Inputs[P]

\* C9: an action of an analysis with LemmaTypes depends on the action of
\* the same analysis on each direct import of its package; an action of an
\* analysis without LemmaTypes has only dependencies on its own package;
\* the other dependencies are those of Requires.
C9_VerticalEdges ==
    phase # "load" =>
        \A n \in Actions :
            LET vert == {d \in Deps(n) : heap[d].pkg # heap[n].pkg}
                hor  == Deps(n) \ vert
            IN  /\ {Name(heap[d]) : d \in hor}
                      = {<<P, heap[n].pkg>> : P \in Range(cfg.Requires[heap[n].a])}
                /\ {Name(heap[d]) : d \in vert}
                      = IF cfg.LemmaTypes[heap[n].a] # <<>>
                        THEN {<<heap[n].a, imp>> : imp \in cfg.Imports[heap[n].pkg]}
                        ELSE {}

\* a graph with both: a package with an import, analysed by an analysis
\* with LemmaTypes and by one without
C9_Witness ==
    \E n, m \in Actions :
        /\ heap[n].pkg = heap[m].pkg
        /\ cfg.Imports[heap[n].pkg] # {}
        /\ cfg.LemmaTypes[heap[n].a] # <<>>
        /\ cfg.LemmaTypes[heap[m].a] = <<>>
        /\ \E d \in Deps(n) : heap[d].pkg # heap[n].pkg
        /\ \A d \in Deps(m) : heap[d].pkg = heap[m].pkg

\* findings reach the output only for root actions
OnlyRootsPrinted ==
    phase = "done" =>
        /\ \A k \in DOMAIN out.stdout : heap[out.stdout[k].act].isroot
        /\ \A id \in DOMAIN out.tree : \A a \in DOMAIN out.tree[id] :
              out.tree[id][a].findings # <<>> => heap[ActionOf(a, id)].isroot

\* C10 as stated: an action is a root exactly when its package is one of
\* the initial packages.
C10_AsStated ==
    /\ phase # "load" =>
          \A n \in Actions : heap[n].isroot <=> heap[n].pkg \in Range(cfg.initial)
    /\ OnlyRootsPrinted

\* C10 (amended): an action is a root exactly when its package is one of
\* the initial packages and its analysis is one of the requested analyses
\* (an action of an analysis that is only required by a requested one is
\* not a root); findings are printed only for root actions.
C10_Roots ==
    /\ phase # "load" =>
          \A n \in Actions :
              heap[n].isroot <=>
                  (heap[n].pkg \in Range(cfg.initial)
                      /\ heap[n].a \in Range(cfg.analyses))
    /\ OnlyRootsPrinted

\* a run in which an action on a dependency-only package and an action of
\* a required analysis on an initial package reported findings or could
\* have, and only a root's findings were printed
C10_Witness ==
    /\ phase = "done"
    /\ \E n \in Actions :
          /\ ~heap[n].isroot /\ ~Failed(n) /\ unit[n].Findings # <<>>
          /\ heap[n].pkg \in Range(cfg.initial)
    /\ \E n \in Actions : heap[n].pkg \notin Range(cfg.initial)

----------------------------------------------------------------------------
(* The callers of package objectpath. *)

\* the words of the explored path strings: names of the package, the
\* reserved tokens, numbers, the empty word and a word that is no identifier
PathWords ==
    {<<"F", "n">>, <<"F", "o", "o">>, <<"I">>, <<"X">>, <<"Z">>, <<"F">>,
     <<"M", "e", "t", "h", "o", "d">>,
     opKey, opValue, opParams, opResults, opUnderlying,
     <<"0">>, <<"1">>, <<"-", "1">>, <<>>, <<"a", "/", "b">>}

\* the strings of n words joined by dots
RECURSIVE Dotted(_)
Dotted(n) ==
    IF n = 1 THEN PathWords
    ELSE {w \o <<".">> \o s : w \in PathWords, s \in Dotted(n - 1)}

\* the strings of at most max words
PathStrings(max) == UNION {Dotted(n) : n \in 1..max}

NoObject == [id |-> "none"]

NoPath == [ok |-> FALSE, path |-> <<>>, err |-> "none"]

NoFound == [kind |-> "none", id |-> "nil", what |-> ""]

\* a caller of the package: it either encodes an object of a package and
\* decodes the path against the package loaded again, or it decodes a path
\* string it got from elsewhere
ObjectPathInit ==
    /\ \/ \E pp \in PkgPaths : \E o \in ObjectsOf(pp) :
             cfg = [mode |-> "Of", pp |-> pp, obj |-> o, p |-> <<>>]
       \/ \E pp \in PkgPaths : \E p \in PathStrings(MaxWords) :
             cfg = [mode |-> "FindObject", pp |-> pp, obj |-> NoObject, p |-> p]
    /\ phase = "start"
    /\ out = [path |-> NoPath, found |-> NoFound]
    /\ heap = <<>>
    /\ roots = <<>>
    /\ stage = <<>>
    /\ gor = <<>>
    /\ runs = <<>>
    /\ err = <<>>
    /\ unit = <<>>
    /\ lemmas = <<>>

\* path, err := objectpath.Of(obj)
Encode ==
    /\ phase = "start"
    /\ cfg.mode = "Of"
    /\ out' = [out EXCEPT !.path = Of(Package(cfg.pp), cfg.obj)]
    /\ phase' = "encoded"
    /\ UNCHANGED <<cfg, heap, roots, stage, gor, runs, err, unit, lemmas>>

\* objectpath.FindObject(pkg, path) for the path that Of returned, against
\* the package loaded again: the same declarations, whose objects stand for
\* the corresponding objects
Decode ==
    /\ phase = "encoded"
    /\ out.path.ok
    /\ out' = [out EXCEPT !.found = FindObject(Package(cfg.pp), out.path.path)]
    /\ phase' = "decoded"
    /\ UNCHANGED <<cfg, heap, roots, stage, gor, runs, err, unit, lemmas>>

\* objectpath.FindObject(pkg, p) for any path string
Find ==
    /\ phase = "start"
    /\ cfg.mode = "FindObject"
    /\ out' = [out EXCEPT !.found = FindObject(Package(cfg.pp), cfg.p)]
    /\ phase' = "found"
    /\ UNCHANGED <<cfg, heap, roots, stage, gor, runs, err, unit, lemmas>>

ObjectPathNext == Encode \/ Decode \/ Find

ObjectPath == ObjectPathInit /\ [][ObjectPathNext]_vars

\* C19: for every object whose path encoding succeeds, exported or not,
\* decoding the path against the package loaded again succeeds and yields
\* the corresponding object.
C19_AsStated ==
    phase = "decoded" =>
        out.found.kind = "object" /\ out.found.id = cfg.obj.id

\* what does hold: the round trip of an object whose path has no element
\* that is the Id of an unexported field or method
RoundTripOfExported ==
    LET r == pathOf(Package(cfg.pp), cfg.obj)
    IN  (phase = "decoded"
            /\ \A i \in DOMAIN r.path :
                  r.path[i].t = "string" => "." \notin Range(r.path[i].v)) =>
            out.found.kind = "object" /\ out.found.id = cfg.obj.id

\* C20: for every path string FindObject returns an object or an error; it
\* does not panic.
C20_AsStated ==
    phase = "found" => out.found.kind \in {"object", "error"}

----------------------------------------------------------------------------
(* The lemmas of one analysis along a chain of packages, in either driver: *)
(* package 1 is imported by package 2, which is imported by package 3. The *)
(* checker analyses them in one process and passes the lemmas on by        *)
(* inheritLemmas; the doctor analyses each in a process of its own and     *)
(* passes them on through the files of writeLemmas and readLemmas.         *)

\* at most this many calls of the Unit's lemma accessors in one run
MaxCalls == 2

\* the import paths of the packages of the chain: "r", "p", "q"
ChainPaths == <<(<<"r">>), (<<"p">>), (<<"q">>)>>

\* Analysis.LemmaTypes of the analysis; a lemma type is named by a number
\* and the order of the numbers is the order of the types' names
FactTypes == <<1, 2>>

\* the types of the lemmas that a Run passes to the accessors: the declared
\* ones and one that the analysis does not declare
CallTypes == {1, 2, 3}

\* the objects that a Run passes to the accessors: of its own package the
\* function Fn, the variable v, the field b and the parameter a; and the
\* function Fn of another package
CallObjects(k) ==
    {FuncFn(ChainPaths[k]), Varv(ChainPaths[k]), Fieldb(ChainPaths[k]),
     Parama(ChainPaths[k]), FuncFn(ChainPaths[(k % 3) + 1])}

\* the calls that the Run of the analysis on package k may make: lemmas of
\* objects are of the first declared type or of the undeclared one
SetterCalls(k) ==
    {[op |-> "SetObjectLemma", obj |-> o, t |-> t] :
        o \in CallObjects(k), t \in {1, 3}}
    \cup {[op |-> "SetPackageLemma", obj |-> NilObject, t |-> t] : t \in CallTypes}

GetterCalls(k) ==
    {[op |-> "ObjectLemma", obj |-> FuncFn(ChainPaths[k]), t |-> t] : t \in {1, 3}}
    \cup {[op |-> "PackageLemma", obj |-> NilObject, t |-> t] : t \in {1, 3}}

\* the scan of a.LemmaTypes in lemmaIndex and in checkLemma
DeclaredAny(t) == TRUE

Declared(t) == t \in Range(FactTypes)

\* obj.Pkg() == act.pkg.Types, obj.Pkg() == ls.pkg
OwnObjectAny(obj, pkg) == TRUE

OwnObject(obj, pkg) == obj.pkg = pkg

\* the outcome of a call of an accessor: a panic or a return, the store
\* after it, and what a getter returned
Panics(l, what) == [panic |-> what, store |-> l, present |-> FALSE]

Returns(l, present) == [panic |-> "", store |-> l, present |-> present]

\* the accessors of the checker's action k (objLemma, setObjLemma, pkgLemma,
\* setPkgLemma) called on store l; enabled is whether unit.SetObjectLemma
\* and unit.SetPackageLemma are still set
CheckerAccessor(k, c, l, enabled) ==
    CASE c.op = "ObjectLemma" ->
            IF ~Declared(c.t) THEN Panics(l, "not a Lemma type")
            ELSE Returns(l, <<c.obj, c.t>> \in DOMAIN l.obj)
      [] c.op = "SetObjectLemma" ->
            IF ~enabled THEN Panics(l, "called after Run")
            ELSE IF ~OwnObject(c.obj, heap[k].pkg)
            THEN Panics(l, "object of another package")
            ELSE IF ~Declared(c.t) THEN Panics(l, "not a Lemma type")
            ELSE Returns(setObjLemma(l, k, c.obj, c.t), FALSE)
      [] c.op = "PackageLemma" ->
            IF ~Declared(c.t) THEN Panics(l, "not a Lemma type")
            ELSE Returns(l, <<heap[k].pkg, c.t>> \in DOMAIN l.pkg)
      [] c.op = "SetPackageLemma" ->
            IF ~enabled THEN Panics(l, "called after Run")
            ELSE IF ~Declared(c.t) THEN Panics(l, "not a Lemma type")
            ELSE Returns(setPkgLemma(l, k, c.t), FALSE)

\* the accessors that the doctor puts into the Unit: closures that call
\* checkLemma and then getObj, setObj, getPkg, setPkg of the lemmaSet
DoctorAccessor(k, c, l) ==
    IF ~Declared(c.t) THEN Panics(l, "not a Lemma type")
    ELSE CASE c.op = "ObjectLemma" ->
                 Returns(l, <<c.obj, c.t>> \in DOMAIN l.obj)
           [] c.op = "SetObjectLemma" ->
                 IF ~OwnObject(c.obj, heap[k].pkg)
                 THEN Panics(l, "object of another package")
                 ELSE Returns(setObjLemma(l, k, c.obj, c.t), FALSE)
           [] c.op = "PackageLemma" ->
                 Returns(l, <<heap[k].pkg, c.t>> \in DOMAIN l.pkg)
           [] c.op = "SetPackageLemma" ->
                 Returns(setPkgLemma(l, k, c.t), FALSE)

\* the order of the bytes that occur in paths
Bytes ==
    <<"!", "+", "-", ".", "/", "0", "1", "2", "3", "4", "5", "6", "7", "8",
      "9", "A", "F", "I", "M", "S", "X", "Y", "Z", "_", "a", "b", "d", "e",
      "g", "h", "i", "k", "l", "m", "n", "o", "p", "q", "r", "s", "t", "u",
      "v", "y">>

Byte(c) == CHOOSE i \in DOMAIN Bytes : Bytes[i] = c

\* x < y on strings
RECURSIVE StringLess(_, _)
StringLess(x, y) ==
    IF y = <<>> THEN FALSE
    ELSE IF x = <<>> THEN TRUE
    ELSE IF Head(x) # Head(y) THEN Byte(Head(x)) < Byte(Head(y))
    ELSE StringLess(Tail(x), Tail(y))

\* a gobLemma
gobLemma(object, pkgpath, t, v) ==
    [Object |-> object, PkgPath |-> pkgpath, Lemma |-> [t |-> t, v |-> v]]

\* the less function that writeLemmas gives to sort.Slice
lemmaLess(x, y) ==
    IF x.Object # y.Object THEN StringLess(x.Object, y.Object)
    ELSE IF x.Lemma.t # y.Lemma.t THEN x.Lemma.t < y.Lemma.t
    ELSE FALSE

\* the keys of the lemmaSet that the loop of writeLemmas appends a gobLemma
\* for: those of packages, and those of objects that have a path
WrittenKeysAll(l) ==
    {[obj |-> k[1], pkgpath |-> <<>>, t |-> k[2]] : k \in DOMAIN l.obj}
        \cup {[obj |-> NilObject, pkgpath |-> k[1], t |-> k[2]] : k \in DOMAIN l.pkg}

WrittenKeys(l) ==
    {[obj |-> k[1], pkgpath |-> <<>>, t |-> k[2]] :
        k \in {x \in DOMAIN l.obj : Of(Package(x[1].pkg), x[1]).ok}}
        \cup {[obj |-> NilObject, pkgpath |-> k[1], t |-> k[2]] : k \in DOMAIN l.pkg}

\* the gobLemma that the loop appends for a key
gobLemmaOf(l, key) ==
    IF key.obj.id # "nil"
    THEN gobLemma(Of(Package(key.obj.pkg), key.obj).path, <<>>, key.t,
                  l.obj[<<key.obj, key.t>>])
    ELSE gobLemma(<<>>, key.pkgpath, key.t, l.pkg[<<key.pkgpath, key.t>>])

\* what writeLemmas may write for a lemmaSet: the gobLemmas of its keys, in
\* an order that the iteration over the map and sort.Slice can produce (an
\* order in which no gobLemma is less than one before it)
writeLemmas(l) ==
    LET keys == WrittenKeys(l)
        n == Cardinality(keys)
    IN  {[i \in 1..n |-> gobLemmaOf(l, order[i])] :
            order \in {o \in [1..n -> keys] :
                        /\ \A i, j \in 1..n : i # j => o[i] # o[j]
                        /\ \A i, j \in 1..n :
                              i < j => ~lemmaLess(gobLemmaOf(l, o[j]),
                                                  gobLemmaOf(l, o[i]))}}

\* the object with the identity id among those of a package
ObjectById(pp, id) == CHOOSE o \in ObjectsOf(pp) : o.id = id

\* the loop of readLemmas over the gobLemmas of the file of the imported
\* package imp, filling m
RECURSIVE readFile(_, _, _, _)
readFile(imp, file, i, m) ==
    IF i > Len(file) THEN m
    ELSE LET g == file[i]
             found == FindObject(Package(imp), g.Object)
         IN  IF g.PkgPath # <<>>
             THEN readFile(imp, file, i + 1,
                    [m EXCEPT !.pkg = (<<g.PkgPath, g.Lemma.t>> :> g.Lemma.v) @@ @])
             ELSE IF found.kind = "panic" THEN [m EXCEPT !.panic = TRUE]
             ELSE IF found.kind = "error" THEN readFile(imp, file, i + 1, m)
             ELSE readFile(imp, file, i + 1,
                    [m EXCEPT !.obj = (<<ObjectById(imp, found.id), g.Lemma.t>>
                                          :> g.Lemma.v) @@ @])

\* readLemmas for package k: the files of its imports are read into one map
readLemmasNothing(k) == [obj |-> <<>>, pkg |-> <<>>, panic |-> FALSE]

readLemmas(k) ==
    IF heap[k].deps = <<>> THEN [obj |-> <<>>, pkg |-> <<>>, panic |-> FALSE]
    ELSE readFile(heap[heap[k].deps[1]].pkg, out.files[heap[k].deps[1]], 1,
                  [obj |-> <<>>, pkg |-> <<>>, panic |-> FALSE])

FactDrivers == {"checker", "doctor"}

\* no accessor has been called yet
NoCall ==
    [k |-> 0, call |-> [op |-> "", obj |-> NilObject, t |-> 0], late |-> FALSE,
     panic |-> "", present |-> FALSE]

\* before the analysis of the first package
FactsInit ==
    /\ cfg \in [driver : FactDrivers]
    /\ phase = "running"
    /\ heap = [k \in 1..3 |->
                 [a |-> 1, pkg |-> ChainPaths[k],
                  deps |-> IF k = 1 THEN <<>> ELSE <<k - 1>>, isroot |-> k = 3]]
    /\ stage = [k \in 1..3 |-> "fresh"]
    /\ lemmas = [k \in 1..3 |-> NoLemmas]
    /\ unit = [k \in 1..3 |-> [setters |-> FALSE]]
    /\ out = [files |-> [k \in 1..3 |-> <<>>], last |-> NoCall]
    /\ runs = 0
    /\ roots = <<>>
    /\ gor = <<>>
    /\ err = <<>>

\* the lemmas of the imports reach package k, and its Run starts: in the
\* checker execOnce calls inheritLemmas for the vertical dependencies and
\* makes the Unit; in the doctor main calls readLemmas and makes the Unit
FactsLoad(k) ==
    /\ phase = "running"
    /\ stage[k] = "fresh"
    /\ k > 1 => stage[k - 1] = "done"
    /\ IF cfg.driver = "checker"
       THEN /\ lemmas' = [lemmas EXCEPT ![k] = PlumbLemmas(k, 1, NoLemmas)]
            /\ phase' = phase
       ELSE LET m == readLemmas(k)
            IN  /\ lemmas' = [lemmas EXCEPT ![k] = [obj |-> m.obj, pkg |-> m.pkg]]
                /\ phase' = IF m.panic THEN "panic" ELSE phase
    /\ stage' = [stage EXCEPT ![k] = "run"]
    /\ unit' = [unit EXCEPT ![k] = [setters |-> TRUE]]
    /\ UNCHANGED <<cfg, heap, out, runs, roots, gor, err>>

\* the outcome of call c of the Unit of package k
Accessor(k, c) ==
    IF cfg.driver = "checker"
    THEN CheckerAccessor(k, c, lemmas[k], unit[k].setters)
    ELSE DoctorAccessor(k, c, lemmas[k])

\* a call is made and out.last records it: a panic ends the process
Called(k, c, late) ==
    LET r == Accessor(k, c)
    IN  /\ runs < MaxCalls
        /\ runs' = runs + 1
        /\ lemmas' = [lemmas EXCEPT ![k] = r.store]
        /\ out' = [out EXCEPT !.last =
                      [k |-> k, call |-> c, late |-> late,
                       panic |-> r.panic, present |-> r.present]]
        /\ phase' = IF r.panic # "" THEN "panic" ELSE phase
        /\ UNCHANGED <<cfg, heap, stage, unit, roots, gor, err>>

\* the Run of the analysis on package k calls an accessor of its Unit
FactsCall(k) ==
    /\ phase = "running"
    /\ stage[k] = "run"
    /\ \E c \in SetterCalls(k) \cup GetterCalls(k) : Called(k, c, FALSE)

\* Run returns: the checker sets unit.SetObjectLemma and
\* unit.SetPackageLemma to nil, the doctor leaves the Unit as it is
FactsReturn(k) ==
    /\ phase = "running"
    /\ stage[k] = "run"
    /\ stage' = [stage EXCEPT ![k] = "ran"]
    /\ unit' = [unit EXCEPT ![k] = [setters |-> cfg.driver # "checker"]]
    /\ UNCHANGED <<cfg, phase, heap, lemmas, out, runs, roots, gor, err>>

\* a setter of the Unit of package k is called after its Run returned, by
\* code that kept the Unit or the setter
FactsLateCall(k) ==
    /\ phase = "running"
    /\ stage[k] = "ran"
    /\ \E c \in SetterCalls(k) : Called(k, c, TRUE)

\* the lemmas of package k are final: the doctor calls writeLemmas
FactsExport(k) ==
    /\ phase = "running"
    /\ stage[k] = "ran"
    /\ stage' = [stage EXCEPT ![k] = "done"]
    /\ IF cfg.driver = "doctor"
       THEN \E file \in writeLemmas(lemmas[k]) :
               out' = [out EXCEPT !.files[k] = file]
       ELSE out' = out
    /\ UNCHANGED <<cfg, phase, heap, lemmas, unit, runs, roots, gor, err>>

FactsNext ==
    \E k \in 1..3 :
        \/ FactsLoad(k)
        \/ FactsCall(k)
        \/ FactsReturn(k)
        \/ FactsLateCall(k)
        \/ FactsExport(k)

Facts == FactsInit /\ [][FactsNext]_vars

(* Properties of the lemmas along the chain. *)

\* what the ObjectLemma getter of the Unit of package k reports for obj and
\* a lemma of type t
ObjectLemma(k, obj, t) ==
    Accessor(k, [op |-> "ObjectLemma", obj |-> obj, t |-> t]).present

\* the lemmas of the imports have reached package k
Loaded(k) == stage[k] # "fresh"

\* the lemmas of package k are final, and written if the driver writes them
Exported(k) == stage[k] = "done"

\* the Run of package k set a lemma of type t on its object obj
SetByRun(k, obj, t) ==
    /\ <<obj, t>> \in DOMAIN lemmas[k].obj
    /\ obj.pkg = heap[k].pkg

\* the object of package k that the object path of obj resolves to, or
\* NilObject if obj has no path or the path resolves to nothing
Resolved(k, obj) ==
    LET path == Of(Package(heap[k].pkg), obj)
        found == IF path.ok THEN FindObject(Package(heap[k].pkg), path.path)
                 ELSE FindErr("no path")
    IN  IF found.kind = "object" THEN ObjectById(heap[k].pkg, found.id)
        ELSE NilObject

\* C11 as stated: a lemma set on object O by the Run of package P is
\* reported present by the ObjectLemma getter of every package Q that
\* imports P, once Q has loaded its lemmas, for the object that the object
\* path of O resolves to; in the checker as in the doctor.
C11_AsStated ==
    \A p \in 1..2 : \A o \in CallObjects(p) : \A t \in Range(FactTypes) :
        (/\ Exported(p) /\ Loaded(p + 1)
         /\ SetByRun(p, o, t)
         /\ Resolved(p, o) # NilObject)
        => ObjectLemma(p + 1, Resolved(p, o), t)

\* C11, amended: a lemma set on object O by the Run of package P is
\* reported present by the ObjectLemma getter of every package Q that
\* imports P, once Q has loaded its lemmas, for the object that the object
\* path of O resolves to, provided that in the checker O is exported from P
\* in the sense of exportedFrom.
C11_RoundTrip ==
    \A p \in 1..2 : \A o \in CallObjects(p) : \A t \in Range(FactTypes) :
        (/\ Exported(p) /\ Loaded(p + 1)
         /\ SetByRun(p, o, t)
         /\ Resolved(p, o) # NilObject
         /\ cfg.driver = "checker" => exportedFrom(o, heap[p].pkg))
        => ObjectLemma(p + 1, Resolved(p, o), t)

\* the doctor has written a lemma on Fn of "p" and the Run of "q" sees it
C11_Witness ==
    /\ cfg.driver = "doctor"
    /\ stage[3] = "run"
    /\ SetByRun(2, FuncFn(ChainPaths[2]), 1)
    /\ \E i \in DOMAIN out.files[2] : out.files[2][i].Object = <<"F", "n">>
    /\ ObjectLemma(3, FuncFn(ChainPaths[2]), 1)

\* C12 as stated: for a given content of the lemmaSet, writeLemmas writes
\* one sequence of gobLemmas, whatever the order in which the map is
\* iterated and whatever sort.Slice does with gobLemmas that compare equal;
\* for lemmas of objects and for lemmas of packages.
C12_AsStated ==
    \A k \in 1..3 :
        (cfg.driver = "doctor" /\ stage[k] = "ran")
        => \A f, g \in writeLemmas(lemmas[k]) : f = g

\* obj has an object path
Encodable(obj) == Of(Package(obj.pkg), obj).ok

\* gobLemma g is the one of the lemma of type t of object obj
RecordOf(g, obj, t) ==
    /\ g.PkgPath = <<>>
    /\ g.Object = Of(Package(obj.pkg), obj).path
    /\ g.Lemma.t = t

\* C13: a file written by writeLemmas has no gobLemma of an object for
\* which objectpath.Of fails, and has one for every other lemma of the
\* lemmaSet, of an object or of a package; and a lemma set by Run on any
\* object, with a path or without, is reported present by the getter of
\* the same Unit from then on (out.last is the latest call).
C13_Omitted ==
    /\ \A k \in 1..3 :
          (cfg.driver = "doctor" /\ Exported(k)) =>
            /\ \A i \in DOMAIN out.files[k] :
                  out.files[k][i].PkgPath = <<>> =>
                     \E key \in DOMAIN lemmas[k].obj :
                        /\ Encodable(key[1])
                        /\ RecordOf(out.files[k][i], key[1], key[2])
            /\ \A key \in DOMAIN lemmas[k].obj :
                  Encodable(key[1]) =>
                     \E i \in DOMAIN out.files[k] :
                        RecordOf(out.files[k][i], key[1], key[2])
            /\ \A key \in DOMAIN lemmas[k].pkg :
                  \E i \in DOMAIN out.files[k] :
                     /\ out.files[k][i].PkgPath = key[1]
                     /\ out.files[k][i].Lemma.t = key[2]
    /\ (out.last.call.op = "SetObjectLemma" /\ out.last.panic = "")
          => ObjectLemma(out.last.k, out.last.call.obj, out.last.call.t)

\* the doctor has written the lemmas of a package whose Run set one on the
\* parameter a, which has no path, and one on the function Fn
C13_Witness ==
    \E k \in 1..3 :
        /\ cfg.driver = "doctor"
        /\ Exported(k)
        /\ <<Parama(ChainPaths[k]), 1>> \in DOMAIN lemmas[k].obj
        /\ ~Encodable(Parama(ChainPaths[k]))
        /\ ObjectLemma(k, Parama(ChainPaths[k]), 1)
        /\ <<FuncFn(ChainPaths[k]), 1>> \in DOMAIN lemmas[k].obj
        /\ Len(out.files[k]) = 1

\* the lemma of the key was not set by the Run of package k: it reached the
\* package from its import
Inherited(k, key) == lemmas[k].obj[key] # k

\* obj is a method, a field, a type name or a constant
MemberOrType(obj) ==
    \/ obj.class = "func" /\ obj.type.recv
    \/ obj.class = "var" /\ obj.field
    \/ obj.class \in {"type", "const"}

\* C14 as stated: an object lemma that the action of the checker for a
\* package inherits from its dependency on the import imp is one of an
\* object for which exportedFrom holds with imp, and never one of an object
\* that belongs to another package than imp.
C14_AsStated ==
    \A k \in 2..3 : \A key \in DOMAIN lemmas[k].obj :
        (cfg.driver = "checker" /\ Loaded(k) /\ Inherited(k, key))
        => /\ exportedFrom(key[1], heap[k - 1].pkg)
           /\ key[1].pkg = heap[k - 1].pkg

\* C14, amended: an object lemma that the action of the checker for a
\* package inherits from its dependency on the import imp is a lemma of the
\* store of that dependency, of an object for which exportedFrom holds with
\* imp; an object that belongs to another package than imp is a method, a
\* field, a type name or a constant, never a package-level function or
\* variable.
C14_Inherits ==
    \A k \in 2..3 : \A key \in DOMAIN lemmas[k].obj :
        (cfg.driver = "checker" /\ Loaded(k) /\ Inherited(k, key))
        => /\ exportedFrom(key[1], heap[k - 1].pkg)
           /\ key \in DOMAIN lemmas[k - 1].obj
           /\ key[1].pkg # heap[k - 1].pkg => MemberOrType(key[1])

\* the action for "q" has inherited from "p" a lemma on the field b of "r",
\* and none on the function Fn of "r", which "p" had inherited
C14_Witness ==
    /\ cfg.driver = "checker"
    /\ Loaded(3)
    /\ <<Fieldb(ChainPaths[1]), 1>> \in DOMAIN lemmas[3].obj
    /\ <<FuncFn(ChainPaths[1]), 1>> \in DOMAIN lemmas[2].obj
    /\ <<FuncFn(ChainPaths[1]), 1>> \notin DOMAIN lemmas[3].obj

\* a step in which an accessor is called, and the record of that call
CallMade == runs' = runs + 1

LastCall == out'.last

\* the call ends in a panic and no lemma of any store is added or changed
Rejected == LastCall.panic # "" /\ phase' = "panic" /\ lemmas' = lemmas

\* C15: a call of any of the four accessors of a Unit with a lemma whose
\* type is not among the LemmaTypes of the analysis panics and leaves the
\* lemmas as they were, in the checker and in the doctor.
C15_Undeclared ==
    [][(CallMade /\ LastCall.call.t \notin Range(FactTypes)) => Rejected]_vars

\* the doctor's PackageLemma getter has been called with a lemma of the
\* undeclared type and has panicked
C15_Witness ==
    /\ cfg.driver = "doctor"
    /\ phase = "panic"
    /\ out.last.call.op = "PackageLemma"
    /\ out.last.call.t = 3
    /\ out.last.panic = "not a Lemma type"

\* C16: a call of SetObjectLemma with an object of another package than
\* the one under analysis panics and leaves the lemmas as they were, in the
\* checker and in the doctor.
C16_Foreign ==
    [][(/\ CallMade
        /\ LastCall.call.op = "SetObjectLemma"
        /\ LastCall.call.obj.pkg # heap[LastCall.k].pkg) => Rejected]_vars

\* the Run of "p" in the checker, having set a lemma on its own Fn, has
\* called SetObjectLemma with the function Fn of "q" and a lemma of a
\* declared type, and has panicked
C16_Witness ==
    /\ cfg.driver = "checker"
    /\ phase = "panic"
    /\ runs = 2
    /\ out.last.k = 2
    /\ out.last.call = [op |-> "SetObjectLemma", obj |-> FuncFn(ChainPaths[3]), t |-> 1]
    /\ out.last.panic = "object of another package"
    /\ DOMAIN lemmas[2].obj = {<<FuncFn(ChainPaths[2]), 1>>}

\* C17 as stated: a call of SetObjectLemma or SetPackageLemma of a Unit
\* after its Run has returned panics and leaves the lemmas as they were, in
\* the checker and in the doctor.
C17_AsStated ==
    [][(CallMade /\ LastCall.late) => Rejected]_vars

----------------------------------------------------------------------------
(* Two goroutines started by the Run of one action, each of which calls a  *)
(* setter of the Unit once. The checker keeps the lemmas of an action in   *)
(* act.objLemmas and act.pkgLemmas, a map per lemma type, made when the    *)
(* first lemma of the type is set, and takes no lock; the doctor keeps     *)
(* them in the one map of the lemmaSet, behind its mutex.                  *)

\* the calls of the goroutines: setters on the objects Fn and v of the
\* package "p" under analysis, or on the package, with a declared type
RaceCalls ==
    {[op |-> "SetObjectLemma", obj |-> o, t |-> t] :
        o \in {FuncFn(<<"p">>), Varv(<<"p">>)}, t \in Range(FactTypes)}
    \cup {[op |-> "SetPackageLemma", obj |-> NilObject, t |-> t] : t \in Range(FactTypes)}

\* the lemmaKey of the lemma of a call
RaceKey(c) ==
    [obj |-> c.obj.id,
     pkgpath |-> IF c.op = "SetObjectLemma" THEN <<>> ELSE <<"p">>,
     t |-> c.t]

\* the map that holds the lemma of a call: act.objLemmas[i] or
\* act.pkgLemmas[i] in the checker, ls.m in the doctor; 0 is a nil map
RaceSlot(c) ==
    IF c.op = "SetObjectLemma" THEN roots.obj[c.t] ELSE roots.pkg[c.t]

\* the goroutines are about to call; the maps of the checker's action are
\* nil, the map of the doctor's lemmaSet is made
RacingInit ==
    /\ cfg \in [driver : FactDrivers,
                call : {p \in RaceCalls \X RaceCalls : RaceKey(p[1]) # RaceKey(p[2])}]
    /\ phase = "running"
    /\ heap = IF cfg.driver = "checker" THEN <<>> ELSE << <<>> >>
    /\ roots = IF cfg.driver = "checker"
               THEN [obj |-> <<0, 0>>, pkg |-> <<0, 0>>]
               ELSE [obj |-> <<1, 1>>, pkg |-> <<1, 1>>]
    /\ gor = [g \in 1..2 |-> [pc |-> "start", m |-> 0, seen |-> <<>>]]
    /\ unit = [mu |-> 0]
    /\ stage = <<>>
    /\ runs = <<>>
    /\ err = <<>>
    /\ lemmas = <<>>
    /\ out = <<>>

\* checker: m := act.objLemmas[i], after the checks, which pass
RaceRead(g) ==
    /\ phase = "running"
    /\ cfg.driver = "checker"
    /\ gor[g].pc = "start"
    /\ gor' = [gor EXCEPT ![g].m = RaceSlot(cfg.call[g]),
                          ![g].pc = IF RaceSlot(cfg.call[g]) = 0 THEN "make" ELSE "write"]
    /\ UNCHANGED <<cfg, phase, heap, roots, unit, stage, runs, err, lemmas, out>>

\* checker: m = make(map[types.Object]analysis.Lemma)
RaceMake(g) ==
    /\ phase = "running"
    /\ gor[g].pc = "make"
    /\ heap' = Append(heap, <<>>)
    /\ gor' = [gor EXCEPT ![g].m = Len(heap) + 1, ![g].pc = "assign"]
    /\ UNCHANGED <<cfg, phase, roots, unit, stage, runs, err, lemmas, out>>

\* checker: act.objLemmas[i] = m
RaceAssign(g) ==
    /\ phase = "running"
    /\ gor[g].pc = "assign"
    /\ roots' = IF cfg.call[g].op = "SetObjectLemma"
                THEN [roots EXCEPT !.obj[cfg.call[g].t] = gor[g].m]
                ELSE [roots EXCEPT !.pkg[cfg.call[g].t] = gor[g].m]
    /\ gor' = [gor EXCEPT ![g].pc = "write"]
    /\ UNCHANGED <<cfg, phase, heap, unit, stage, runs, err, lemmas, out>>

\* doctor: ls.mu.Lock(), after the checks, which pass
RaceLock(g) ==
    /\ phase = "running"
    /\ cfg.driver = "doctor"
    /\ gor[g].pc = "start"
    /\ unit.mu = 0
    /\ unit' = [mu |-> g]
    /\ gor' = [gor EXCEPT ![g].m = RaceSlot(cfg.call[g]), ![g].pc = "write"]
    /\ UNCHANGED <<cfg, phase, heap, roots, stage, runs, err, lemmas, out>>

\* another goroutine is in the middle of an assignment to the same map
RaceOverlap(g) ==
    \E h \in 1..2 : h # g /\ gor[h].pc = "writing" /\ gor[h].m = gor[g].m

\* m[obj] = lemma begins. An assignment to a map that another goroutine is
\* assigning to is a data race: the runtime may stop the process with
\* "fatal error: concurrent map writes", or not notice
RaceWrite(g) ==
    /\ phase = "running"
    /\ gor[g].pc = "write"
    /\ \E fatal \in IF RaceOverlap(g) THEN {TRUE, FALSE} ELSE {FALSE} :
          IF fatal
          THEN phase' = "fatal" /\ gor' = gor
          ELSE /\ phase' = phase
               /\ gor' = [gor EXCEPT ![g].seen = heap[gor[g].m], ![g].pc = "writing"]
    /\ UNCHANGED <<cfg, heap, roots, unit, stage, runs, err, lemmas, out>>

\* m[obj] = lemma ends: the entry is in the map. After a racing assignment
\* the map holds the entries there are now, or those there were when this
\* assignment began
RaceWritten(g) ==
    /\ phase = "running"
    /\ gor[g].pc = "writing"
    /\ \E base \in {heap[gor[g].m], gor[g].seen} :
          heap' = [heap EXCEPT ![gor[g].m] = (RaceKey(cfg.call[g]) :> g) @@ base]
    /\ gor' = [gor EXCEPT ![g].pc = IF cfg.driver = "doctor" THEN "unlock" ELSE "done"]
    /\ UNCHANGED <<cfg, phase, roots, unit, stage, runs, err, lemmas, out>>

\* doctor: ls.mu.Unlock()
RaceUnlock(g) ==
    /\ phase = "running"
    /\ gor[g].pc = "unlock"
    /\ unit' = [mu |-> 0]
    /\ gor' = [gor EXCEPT ![g].pc = "done"]
    /\ UNCHANGED <<cfg, phase, heap, roots, stage, runs, err, lemmas, out>>

RacingNext ==
    \E g \in 1..2 :
        \/ RaceRead(g)
        \/ RaceMake(g)
        \/ RaceAssign(g)
        \/ RaceLock(g)
        \/ RaceWrite(g)
        \/ RaceWritten(g)
        \/ RaceUnlock(g)

Racing == RacingInit /\ [][RacingNext]_vars

\* the lemma of call c is in the store of the action
RaceStored(c) ==
    /\ RaceSlot(c) # 0
    /\ RaceKey(c) \in DOMAIN heap[RaceSlot(c)]

\* C18 as stated: when two goroutines started inside Run set lemmas with
\* different keys on the same action at the same time, the process goes on
\* and, when both calls have returned, both lemmas are in the store; in the
\* checker and in the doctor.
C18_AsStated ==
    /\ phase # "fatal"
    /\ (\A g \in 1..2 : gor[g].pc = "done") => \A g \in 1..2 : RaceStored(cfg.call[g])

----------------------------------------------------------------------------
(* checker.Run as the main functions call it: it loads the packages,       *)
(* returns the loader's error if there is one, and otherwise analyzes,     *)
(* prints and returns nil. The environment may cancel the run at any time  *)
(* (an interrupt or a surrounding timeout); cfg.cancelled records that it  *)
(* did, and no statement of the checker reads it.                          *)

\* at most this many actions of a run of checker.Run report findings
MaxReports == 2

\* a second finding at the position of Finding1, of another category
Finding2 == [pos |-> 7, category |-> "deprecated", message |-> "unreachable statement"]

\* the Findings that a Run may report
ReportLists == {<<>>, <<Finding1>>, <<Finding1, Finding2, Finding1>>}

\* the inputs of checker.Run: load returns an error, or packages without
\* errors (load turns any error of a package into an error of its own)
RunConfigs ==
    {c @@ [load |-> l, cancelled |-> FALSE] :
        c \in {c \in Configs : \A p \in Pkgs : ~c.IllTyped[p]},
        l \in {"nil", "error"}}

CheckerRunInit ==
    /\ cfg \in RunConfigs
    /\ phase = "start"
    /\ heap = <<>>
    /\ roots = <<>>
    /\ stage = <<>>
    /\ gor = <<>>
    /\ runs = <<>>
    /\ err = <<>>
    /\ unit = <<>>
    /\ lemmas = <<>>
    /\ out = NoOut

\* initial, err := load(args, allSyntax); if err != nil { return err }
Load ==
    /\ phase = "start"
    /\ phase' = IF cfg.load = "error" THEN "returned error" ELSE "load"
    /\ UNCHANGED <<cfg, heap, roots, stage, gor, runs, err, unit, lemmas, out>>

\* the environment cancels the run while it loads, analyzes or prints
Cancel ==
    /\ phase \in {"load", "exec", "print"}
    /\ ~cfg.cancelled
    /\ cfg' = [cfg EXCEPT !.cancelled = TRUE]
    /\ UNCHANGED <<phase, heap, roots, stage, gor, runs, err, unit, lemmas, out>>

\* Run returns and leaves the Findings of its choice among ReportLists
ReportReturn(n) == Returning(n, ReportLists, MaxReports)

\* faulty variant: Run returns an error if an action has one
ReturnActionErr ==
    /\ phase = "done"
    /\ phase' = IF \E n \in DOMAIN heap : err[n] # NilErr
                THEN "returned error" ELSE "returned nil"
    /\ UNCHANGED <<cfg, heap, roots, stage, gor, runs, err, unit, lemmas, out>>

\* return nil
ReturnNil ==
    /\ phase = "done"
    /\ phase' = "returned nil"
    /\ UNCHANGED <<cfg, heap, roots, stage, gor, runs, err, unit, lemmas, out>>

CheckerRunNext ==
    \/ Load
    \/ Cancel
    \/ Analyze
    \/ \E g \in DOMAIN gor : Exec(g)
    \/ \E g \in DOMAIN gor : Unblock(g)
    \/ \E n \in DOMAIN heap : Body(n)
    \/ \E n \in DOMAIN heap : ReportReturn(n)
    \/ ExecAllDone
    \/ PrintFindings
    \/ ReturnNil

CheckerRun == CheckerRunInit /\ [][CheckerRunNext]_vars

(* Properties of checker.Run. *)

\* printFindings has returned
Reported == phase \in {"done", "returned nil"}

\* the root actions that finished without error
GoodRoots == {n \in DOMAIN heap : heap[n].isroot /\ err[n] = NilErr}

\* what identifies a printed line: position, analysis, category, message
LineKey(line) == <<line.posn, line.class[1], line.class[2], line.message>>

FindingKey(n, f) == <<f.pos, heap[n].a, f.category, f.message>>

\* C21: in the plain text output no two lines have the same position,
\* analysis, category and message, and every finding of a root action
\* without error has its line; in the JSON output every root action without
\* error that has findings has all of them, in order, under its package ID
\* and analysis, so that a finding of two packages appears under both.
C21_Duplicates ==
    Reported =>
        IF out.JSON
        THEN \A n \in GoodRoots :
                unit[n].Findings # <<>> =>
                    /\ heap[n].pkg \in DOMAIN out.tree
                    /\ heap[n].a \in DOMAIN out.tree[heap[n].pkg]
                    /\ out.tree[heap[n].pkg][heap[n].a].findings = unit[n].Findings
        ELSE /\ \A i, j \in DOMAIN out.stdout :
                   i # j => LineKey(out.stdout[i]) # LineKey(out.stdout[j])
             /\ \A n \in GoodRoots : \A k \in DOMAIN unit[n].Findings :
                   \E i \in DOMAIN out.stdout :
                      LineKey(out.stdout[i]) = FindingKey(n, unit[n].Findings[k])

\* the same analysis reported Finding1 for two initial packages, and the
\* plain text output has one line for it
C21_Witness ==
    /\ Reported
    /\ ~out.JSON
    /\ \E n, m \in GoodRoots :
          /\ heap[n].a = heap[m].a
          /\ heap[n].pkg # heap[m].pkg
          /\ unit[n].Findings = <<Finding1>>
          /\ unit[m].Findings = <<Finding1, Finding2, Finding1>>
    /\ Len(out.stdout) = 2

\* the JSON output has an entry under the package ID and the analysis of n
InTree(n) ==
    /\ heap[n].pkg \in DOMAIN out.tree
    /\ heap[n].a \in DOMAIN out.tree[heap[n].pkg]

\* C22: in the JSON output every action that finished with an error, root
\* or not, has the object {error: message} under its package ID and
\* analysis; a root action without error that has findings has the list of
\* its findings there; every other action has nothing there; and the
\* output has no other entry and no package without entries.
C22_Tree ==
    (Reported /\ out.JSON) =>
        /\ \A n \in DOMAIN heap :
              IF err[n] # NilErr
              THEN InTree(n) /\ out.tree[heap[n].pkg][heap[n].a]
                                   = [error |-> err[n], findings |-> <<>>]
              ELSE IF heap[n].isroot /\ unit[n].Findings # <<>>
              THEN InTree(n) /\ out.tree[heap[n].pkg][heap[n].a]
                                   = [error |-> NilErr, findings |-> unit[n].Findings]
              ELSE ~InTree(n)
        /\ \A id \in DOMAIN out.tree :
              /\ DOMAIN out.tree[id] # {}
              /\ \A a \in DOMAIN out.tree[id] :
                    \E n \in DOMAIN heap : heap[n].pkg = id /\ heap[n].a = a

\* the JSON output of a run in which a dependency failed, a root reported
\* findings, and a dependency without error had findings that are not shown
C22_Witness ==
    /\ Reported
    /\ out.JSON
    /\ \E n, m, k \in DOMAIN heap :
          /\ ~heap[n].isroot /\ err[n] = RunErr /\ InTree(n)
          /\ heap[m].isroot /\ err[m] = NilErr /\ unit[m].Findings # <<>> /\ InTree(m)
          /\ ~heap[k].isroot /\ err[k] = NilErr /\ unit[k].Findings # <<>> /\ ~InTree(k)

\* checker.Run has returned
Returned == phase \in {"returned nil", "returned error"}

\* C23: checker.Run returns an error exactly when load returned one, and
\* then nothing was analyzed; when load succeeded Run returns nil whatever
\* the errors of the actions, each of which stays with its action and, in
\* the plain text output, is written to standard error.
C23_ReturnsNil ==
    /\ Returned => (phase = "returned error" <=> cfg.load = "error")
    /\ phase = "returned error" => heap = <<>> /\ out = NoOut
    /\ (phase = "returned nil" /\ ~out.JSON) =>
          \A n \in DOMAIN heap :
             err[n] # NilErr =>
                \E i \in DOMAIN out.stderr :
                   out.stderr[i] = [name |-> heap[n].a, err |-> err[n]]

\* Run has returned nil although Run of one action returned an error and
\* another action failed for it
C23_Witness ==
    /\ phase = "returned nil"
    /\ \E n, m \in DOMAIN heap :
          /\ err[n] = RunErr
          /\ err[m].kind = "failed prerequisites"
          /\ heap[m].isroot

\* C24 as stated: once the run has been cancelled, no action that has not
\* begun its execOnce begins it (actions whose Run is in flight go on to
\* their end).
C24_AsStated ==
    [][cfg.cancelled =>
          \A n \in DOMAIN heap :
             (n \in DOMAIN stage /\ stage[n] = "fresh") => stage'[n] = "fresh"]_vars

(* Properties of the construction of the graph. *)

\* the (analysis, package) pairs that a pair depends on directly
PairDeps(k) ==
    {<<cfg.Requires[k[1]][i], k[2]>> : i \in DOMAIN cfg.Requires[k[1]]}
    \cup (IF Len(cfg.LemmaTypes[k[1]]) > 0
          THEN {<<k[1], p>> : p \in cfg.Imports[k[2]]}
          ELSE {})

\* the pairs reachable from the pairs of S
RECURSIVE PairsFrom(_)
PairsFrom(S) ==
    LET T == S \cup UNION {PairDeps(k) : k \in S}
    IN  IF T = S THEN S ELSE PairsFrom(T)

\* the actions that have action n among their dependencies
Parents(n) == {m \in DOMAIN heap : n \in Range(heap[m].deps)}

\* C30: the graph that analyze builds has exactly one action for every
\* (analysis, package) pair reachable from the requested analyses on the
\* initial packages and none for any other pair; every root and every
\* dependency, however often its pair is asked for, is that one action;
\* and the action is executed at most once.
C30_OneActionPerPair ==
    phase \notin {"load", "start", "returned error"} =>
        /\ \A n, m \in DOMAIN heap : Name(heap[n]) = Name(heap[m]) => n = m
        /\ {Name(heap[n]) : n \in DOMAIN heap} = PairsFrom(Range(RootPairs(cfg)))
        /\ \A i \in DOMAIN roots : Name(heap[roots[i]]) = RootPairs(cfg)[i]
        /\ \A n \in DOMAIN heap : runs[n] <= 1

\* a diamond has been executed: the action at its bottom has two parents,
\* which are the dependencies of one action, and its Run was called once
C30_Witness ==
    /\ phase = "print"
    /\ \E n, top \in DOMAIN heap :
          /\ Cardinality(Parents(n)) = 2
          /\ Parents(n) \subseteq Range(heap[top].deps)
          /\ runs[n] = 1

(***************************************************************************)
(* go/ast/inspector: the table of events built by New and the three        *)
(* traversals that scan it.                                                 *)
(*                                                                          *)
(* The syntax trees are a forest over the nodes 1..MaxNodes: parent[n] is   *)
(* the parent of n, 0 for an *ast.File; the children of a node are visited  *)
(* in increasing order, so the numbers are the positions in the source.     *)
(* The callback f returns false exactly for the nodes of cfg.prune: a node  *)
(* is passed to f at most once on push in a traversal, so a callback with   *)
(* state is covered by the set of nodes at which it returned false.         *)
(* In this specification heap is the table in.events, stage the index i of  *)
(* the loop, unit the stack of TypesWithStack and out the calls of f.       *)
(***************************************************************************)

\* the number of nodes of the syntax trees
MaxNodes == 4

NodeIds == 1..MaxNodes

\* ast.Node(nil), the argument of f on a pop in Inspect
NilNode == 0

\* the node types of the model, in the order of the table nodeTypes
nodeTypes == <<"BasicLit", "CallExpr", "File">>

\* a uint64 as the set of the positions of its bits that are 1;
\* typebit[reflect.TypeOf(n)] = 1 << uint(1+i)
typebit(t) ==
    UNION {{i} : i \in {j \in DOMAIN nodeTypes : nodeTypes[j] = t}}

\* the chain of nodes from the file down to n
RECURSIVE Chain(_, _)
Chain(parent, n) ==
    IF parent[n] = 0 THEN <<n>> ELSE Append(Chain(parent, parent[n]), n)

\* the forests: node n is a file or a child of a node of the chain of n - 1
Forests ==
    {p \in [NodeIds -> 0..(MaxNodes - 1)] :
        /\ p[1] = 0
        /\ \A n \in NodeIds \ {1} :
              p[n] = 0 \/ p[n] \in Range(Chain(p, n - 1))}

\* the reflect.Type of every node: the files are the *ast.File nodes
Typings(p) ==
    {t \in [NodeIds -> Range(nodeTypes)] :
        \A n \in NodeIds : (t[n] = "File") <=> (p[n] = 0)}

\* the types argument of Types and TypesWithStack: a nil slice, an empty
\* slice that is not nil, and slices with elements
TypesArgs ==
    {[nil |-> TRUE, elems |-> <<>>],
     [nil |-> FALSE, elems |-> <<>>],
     [nil |-> FALSE, elems |-> <<"CallExpr">>],
     [nil |-> FALSE, elems |-> <<"BasicLit", "CallExpr">>]}

\* the methods and their types arguments; Inspect has none
Methods ==
    {[method |-> m, types |-> ty] :
        m \in {"Inspect", "Types", "TypesWithStack"}, ty \in TypesArgs}
    \ {[method |-> "Inspect", types |-> ty] :
           ty \in {a \in TypesArgs : ~a.nil \/ a.elems # <<>>}}

\* files []*ast.File
Files(c) == SortedSeq({n \in NodeIds : c.parent[n] = 0})

Children(c, n) == SortedSeq({m \in NodeIds : c.parent[m] = n})

\* the callback of a traversal
f(c, n) == n \notin c.prune

\* ast.Inspect(n, f) for the callback that returns false on the nodes of
\* P: the arguments of the calls of f.  It calls f(n); if that returns
\* true, it inspects the children of n in order and then calls f(nil).
RECURSIVE astInspect(_, _, _), astInspectAll(_, _, _)
astInspect(c, n, P) ==
    IF n \in P
    THEN <<n>>
    ELSE <<n>> \o astInspectAll(c, Children(c, n), P) \o <<NilNode>>

astInspectAll(c, ns, P) ==
    IF ns = <<>> THEN <<>>
    ELSE astInspect(c, Head(ns), P) \o astInspectAll(c, Tail(ns), P)

typeOf(c, n) == typebit(c.typ[n])

\* the function literal that traverse passes to ast.Inspect, applied to
\* the arguments ns one after the other; st is [stack, events]
RECURSIVE traverseVisit(_, _, _)
traverseVisit(c, st, ns) ==
    IF ns = <<>> THEN st
    ELSE
      LET n == Head(ns) IN
      IF n # NilNode
      THEN \* push
           traverseVisit(c,
              [stack  |-> Append(st.stack,
                                 [node |-> n, typ |-> typeOf(c, n),
                                  pushindex |-> Len(st.events)]),
               events |-> Append(st.events,
                                 [node |-> n, typ |-> typeOf(c, n),
                                  popindex |-> -1])],
              Tail(ns))
      ELSE \* pop
           LET it == st.stack[Len(st.stack)]
               events == Append(st.events,
                                [node |-> it.node, typ |-> it.typ,
                                 popindex |-> 0])
           IN  traverseVisit(c,
                  [stack  |-> SubSeq(st.stack, 1, Len(st.stack) - 1),
                   events |-> [events EXCEPT ![it.pushindex + 1].popindex =
                                                 Len(events)]],
                  Tail(ns))

\* traverse builds the table of events; the indices are those of Go,
\* events[i] of the code is events[i + 1] here
traverse(c) ==
    traverseVisit(c, [stack |-> <<>>, events |-> <<>>],
                  astInspectAll(c, Files(c), {})).events

\* maskOf: all bits for a nil slice, else the bits of the elements
maskOf(ty) ==
    IF ty.nil THEN 0..63
    ELSE UNION {typebit(ty.elems[i]) : i \in DOMAIN ty.elems}

\* ev.typ&mask != 0
Masked(ev, mask) == ev.typ \cap mask # {}

\* faulty variant: a pruned node's pop event is not skipped
PruneToPop(ev) == ev.popindex - 1

\* i = ev.popindex
PruneTo(ev) == ev.popindex

\* faulty variant: the pruned node stays on the stack
PrunedStackKept(stack) == stack

\* stack = stack[:len(stack)-1]
PrunedStack(stack) == SubSeq(stack, 1, Len(stack) - 1)

InspectorInit ==
    /\ \E p \in Forests :
          \E t \in Typings(p), m \in Methods, P \in SUBSET NodeIds :
             cfg = [parent |-> p, typ |-> t, method |-> m.method,
                    types |-> m.types, prune |-> P]
    /\ phase = "new"
    /\ heap = <<>>
    /\ stage = 0
    /\ unit = <<>>
    /\ out = <<>>
    /\ roots = <<>> /\ gor = <<>> /\ runs = <<>> /\ err = <<>>
    /\ lemmas = <<>>

\* New, and the entry of the method
New ==
    /\ phase = "new"
    /\ heap' = traverse(cfg)
    /\ phase' = cfg.method
    /\ UNCHANGED <<cfg, stage, unit, out, roots, gor, runs, err, lemmas>>

\* a call of f: node, push and stack are its arguments
FCall(n, push, stack) == [node |-> n, push |-> push, stack |-> stack]

\* one iteration of the loop of Inspect
Inspect ==
    /\ phase = "Inspect"
    /\ stage < Len(heap)
    /\ LET ev == heap[stage + 1] IN
       IF ev.popindex > 0
       THEN /\ out' = Append(out, FCall(ev.node, TRUE, <<>>))
            /\ stage' = IF ~f(cfg, ev.node) THEN PruneTo(ev) ELSE stage + 1
       ELSE /\ out' = Append(out, FCall(NilNode, FALSE, <<>>))
            /\ stage' = stage + 1
    /\ UNCHANGED <<cfg, phase, heap, unit, roots, gor, runs, err, lemmas>>

\* one iteration of the loop of Types
Types ==
    /\ phase = "Types"
    /\ stage < Len(heap)
    /\ LET ev == heap[stage + 1]
           mask == maskOf(cfg.types)
       IN  IF Masked(ev, mask)
           THEN IF ev.popindex > 0
                THEN /\ out' = Append(out, FCall(ev.node, TRUE, <<>>))
                     /\ stage' = IF ~f(cfg, ev.node) THEN PruneTo(ev)
                                 ELSE stage + 1
                ELSE /\ out' = Append(out, FCall(ev.node, FALSE, <<>>))
                     /\ stage' = stage + 1
           ELSE /\ out' = out
                /\ stage' = stage + 1
    /\ UNCHANGED <<cfg, phase, heap, unit, roots, gor, runs, err, lemmas>>

\* one iteration of the loop of TypesWithStack
TypesWithStack ==
    /\ phase = "TypesWithStack"
    /\ stage < Len(heap)
    /\ LET ev == heap[stage + 1]
           mask == maskOf(cfg.types)
           stack == Append(unit, ev.node)
       IN  IF ev.popindex > 0
           THEN IF Masked(ev, mask)
                THEN /\ out' = Append(out, FCall(ev.node, TRUE, stack))
                     /\ IF ~f(cfg, ev.node)
                        THEN /\ stage' = PruneTo(ev)
                             /\ unit' = PrunedStack(stack)
                        ELSE /\ stage' = stage + 1
                             /\ unit' = stack
                ELSE /\ out' = out
                     /\ stage' = stage + 1
                     /\ unit' = stack
           ELSE /\ out' = IF Masked(ev, mask)
                          THEN Append(out, FCall(ev.node, FALSE, unit))
                          ELSE out
                /\ unit' = SubSeq(unit, 1, Len(unit) - 1)
                /\ stage' = stage + 1
    /\ UNCHANGED <<cfg, phase, heap, roots, gor, runs, err, lemmas>>

\* the loop ends: i >= len(in.events)
Traversed ==
    /\ phase \in {"Inspect", "Types", "TypesWithStack"}
    /\ stage >= Len(heap)
    /\ phase' = "done"
    /\ UNCHANGED <<cfg, heap, stage, unit, out, roots, gor, runs, err, lemmas>>

InspectorNext == New \/ Inspect \/ Types \/ TypesWithStack \/ Traversed

Inspector == InspectorInit /\ [][InspectorNext]_vars

(* Properties of the traversals. *)

\* the arguments of the calls of f made so far by Inspect
InspectArgs == [i \in DOMAIN out |-> out[i].node]

IsPrefix(s, t) == Len(s) <= Len(t) /\ s = SubSeq(t, 1, Len(s))

\* C25: for every list of files and every callback, the arguments with
\* which Inspector.Inspect has called f are at every moment a prefix of
\* the arguments with which ast.Inspect, applied to the files in order,
\* calls the same callback (the node on push, nil on pop; the children of
\* a node at which f returned false are skipped and there is no nil call
\* for it), and when Inspect returns the two sequences are the same.
C25_SameCalls ==
    (cfg.method = "Inspect" /\ phase \in {"Inspect", "done"}) =>
        LET ref == astInspectAll(cfg, Files(cfg), cfg.prune) IN
        /\ IsPrefix(InspectArgs, ref)
        /\ phase = "done" => InspectArgs = ref

\* Inspect has returned after f pruned a node that has a child, and
\* visited a node after it
C25_Witness ==
    /\ cfg.method = "Inspect"
    /\ phase = "done"
    /\ \E i, j \in DOMAIN out :
          /\ i < j
          /\ out[i].node \in cfg.prune
          /\ Children(cfg, out[i].node) # <<>>
          /\ out[j].node # NilNode

\* the calls f(n, push) of a depth-first traversal of the trees ns that
\* calls f for the nodes of W only and does not descend into, nor pop, a
\* node of W at which f returned false (a node of P)
RECURSIVE depthFirst(_, _, _, _)
depthFirst(c, ns, W, P) ==
    IF ns = <<>> THEN <<>>
    ELSE
      LET n == Head(ns)
          below == depthFirst(c, Children(c, n), W, P)
          here == IF n \notin W THEN below
                  ELSE IF n \in P THEN <<FCall(n, TRUE, <<>>)>>
                  ELSE <<FCall(n, TRUE, <<>>)>> \o below
                       \o <<FCall(n, FALSE, <<>>)>>
      IN  here \o depthFirst(c, Tail(ns), W, P)

\* the nodes whose type matches an element of the types argument
Matching(c) == {n \in NodeIds : c.typ[n] \in Range(c.types.elems)}

\* C26: when Types returns, with a callback that always returns true, the
\* calls of f are those of a depth-first traversal, f(n, true) before the
\* children of n and f(n, false) after them, for exactly the nodes whose
\* type matches an element of types; if types is empty, nil or of length
\* zero, they are the calls for every node.
C26_AsStated ==
    (cfg.method = "Types" /\ phase = "done" /\ cfg.prune = {}) =>
        out = depthFirst(cfg, Files(cfg),
                         IF cfg.types.elems = <<>> THEN NodeIds
                         ELSE Matching(cfg),
                         {})

\* the same for a types argument that is nil or has elements, and for
\* every callback: this holds
C26_NilOrElements ==
    (cfg.method = "Types" /\ phase = "done"
     /\ (cfg.types.nil \/ cfg.types.elems # <<>>)) =>
        out = depthFirst(cfg, Files(cfg),
                         IF cfg.types.nil THEN NodeIds ELSE Matching(cfg),
                         cfg.prune)

\* the stack that TypesWithStack must pass with node n
Ancestors(n) == Chain(cfg.parent, n)

\* C27: every call f(n, push, stack) of TypesWithStack, on push and on
\* pop, has as its stack the chain of nodes from the enclosing file, first,
\* down to n, last, with the ancestors whose type is not in the filter,
\* whatever subtrees f has pruned before; the stack of the loop is the
\* chain of the node whose children are being scanned.
C27_Stack ==
    (cfg.method = "TypesWithStack" /\ phase \in {"TypesWithStack", "done"}) =>
        /\ \A i \in DOMAIN out :
              /\ out[i].node # NilNode
              /\ out[i].stack = Ancestors(out[i].node)
        /\ phase = "done" => unit = <<>>

\* after f had pruned a node, f was called with a stack that holds,
\* below the file, an ancestor whose type is not in the filter
C27_Witness ==
    /\ cfg.method = "TypesWithStack"
    /\ phase = "done"
    /\ ~cfg.types.nil
    /\ \E i, j \in DOMAIN out :
          /\ i < j
          /\ out[i].node \in cfg.prune
          /\ \E k \in DOMAIN out[j].stack :
                /\ out[j].stack[k] \notin Matching(cfg)
                /\ cfg.parent[out[j].stack[k]] # 0

(***************************************************************************)
(* internal/jsonrpc2: one Conn, the goroutines of Conn.Call, the read loop  *)
(* Conn.run, the goroutines it starts for incoming requests, and the peer   *)
(* at the other end of the stream.                                          *)
(*                                                                          *)
(* In this specification cfg.handler is the Handler option of NewConn,      *)
(* phase the position of run, heap the map c.pending (the channel of call   *)
(* k is k), roots the keys of c.handling, stage the goroutines of Call,     *)
(* gor the goroutines of the incoming requests, runs the counter c.seq,     *)
(* err whether cancelRun was called, unit the channel and the response      *)
(* that run holds, lemmas the messages written to the stream and not yet    *)
(* read by the peer, and out the peer: the messages it wrote that run has   *)
(* not read, how many requests it sent and what it answered and received.   *)
(***************************************************************************)

\* the number of calls of Conn.Call
MaxRequests == 2

\* the number of messages, other than responses, that the peer sends
MaxIncoming == 1

\* the Handler option: none, or a handler that returns a result, an
\* *Error, or a result that json.Marshal rejects
Handlers == {"none", "result", "error", "unencodable"}

\* a message of the stream, as the fields of combined; id 0 is a nil ID,
\* wellformed is whether json.Unmarshal accepts the data
Message(method, id, result, error, wellformed) ==
    [method |-> method, id |-> id, result |-> result, error |-> error,
     wellformed |-> wellformed]

\* the program order of Conn.Call after the request was marshalled
CallStepsWriteFirst == <<"write", "register", "wait">>

\* c.pending[*request.ID] = rchan, then c.stream.Write, then the select
CallSteps == <<"register", "write", "wait">>

\* a goroutine of Call: at is its position in CallSteps, 0 before the
\* call, and ret what Call returned
NoCallYet == [at |-> 0, id |-> 0, ret |-> "none"]

\* the handler that NewConn installs when no Handler option was given:
\* its results (interface{}, *Error)
DefaultHandler == [resp |-> "nil", callErr |-> "nil"]

\* c.handle(reqCtx, c, request)
HandlerResult(h) ==
    CASE h = "none" -> DefaultHandler
      [] h = "result" -> [resp |-> "value", callErr |-> "nil"]
      [] h = "unencodable" -> [resp |-> "channel", callErr |-> "nil"]
      [] h = "error" -> [resp |-> "nil", callErr |-> "method error"]

\* json.Marshal(resp): the data, or an error
Marshal(resp) ==
    CASE resp = "nil" -> [data |-> "null", encErr |-> "nil"]
      [] resp = "value" -> [data |-> "value", encErr |-> "nil"]
      [] resp = "channel" -> [data |-> "", encErr |-> "unsupported type"]

\* faulty variant: a response that does not carry the ID of the request
ResponseWithoutID(id, h) == Message("", 0, "null", "nil", TRUE)

\* the Response that the goroutine of an incoming call builds
ResponseOf(id, h) ==
    LET r == HandlerResult(h) IN
    IF r.callErr = "nil"
    THEN LET m == Marshal(r.resp) IN
         IF m.encErr # "nil"
         THEN Message("", id, "nil", m.encErr, TRUE)
         ELSE Message("", id, m.data, "nil", TRUE)
    ELSE Message("", id, "nil", r.callErr, TRUE)

\* faulty variant: the entry is left in the map
UnpendNot(pending, id) == pending

\* the deferred delete(c.pending, *request.ID)
Unpend(pending, id) == [i \in DOMAIN pending \ {id} |-> pending[i]]

NoPeer == [in |-> <<>>, sent |-> 0, answered |-> <<>>, got |-> <<>>]

NoHold == [rchan |-> 0, response |-> Message("", 0, "nil", "nil", TRUE)]

\* NewConn
ConnInit ==
    /\ cfg \in [handler : Handlers]
    /\ phase = "read"
    /\ heap = <<>>
    /\ roots = {}
    /\ stage = [k \in 1..MaxRequests |-> NoCallYet]
    /\ gor = <<>>
    /\ runs = 0
    /\ err = FALSE
    /\ unit = NoHold
    /\ lemmas = <<>>
    /\ out = NoPeer

Step(k) == IF stage[k].at \in DOMAIN CallSteps /\ stage[k].ret = "none"
           THEN CallSteps[stage[k].at] ELSE "none"

\* Call up to the marshalling of the request: a new request identifier;
\* the goroutines are numbered in the order in which they draw it
CallBegin(k) ==
    /\ stage[k].at = 0
    /\ k = runs + 1
    /\ runs' = runs + 1
    /\ stage' = [stage EXCEPT ![k] = [at |-> 1, id |-> runs + 1,
                                      ret |-> "none"]]
    /\ UNCHANGED <<cfg, phase, heap, roots, gor, err, unit, lemmas, out>>

\* c.pending[*request.ID] = rchan
CallRegister(k) ==
    /\ Step(k) = "register"
    /\ heap' = (stage[k].id :> k) @@ heap
    /\ stage' = [stage EXCEPT ![k].at = @ + 1]
    /\ UNCHANGED <<cfg, phase, roots, gor, runs, err, unit, lemmas, out>>

\* c.stream.Write(ctx, data); if it fails Call returns the error and
\* the deferred function removes the entry
CallWrite(k) ==
    /\ Step(k) = "write"
    /\ \/ /\ lemmas' = Append(lemmas,
                              Message("m", stage[k].id, "nil", "nil", TRUE))
          /\ stage' = [stage EXCEPT ![k].at = @ + 1]
          /\ heap' = heap
       \/ /\ lemmas' = lemmas
          /\ stage' = [stage EXCEPT ![k].ret = "write error"]
          /\ heap' = Unpend(heap, stage[k].id)
    /\ UNCHANGED <<cfg, phase, roots, gor, runs, err, unit, out>>

\* case response := <-rchan: the send of run and the receive of Call
\* meet; Call returns the error of the response or nil, run closes the
\* channel and continues
CallReceive(k) ==
    /\ Step(k) = "wait"
    /\ phase = "sending"
    /\ unit.rchan = k
    /\ stage' = [stage EXCEPT ![k].ret =
                    IF unit.response.error # "nil" THEN "error" ELSE "nil"]
    /\ heap' = Unpend(heap, stage[k].id)
    /\ phase' = "read"
    /\ unit' = NoHold
    /\ UNCHANGED <<cfg, roots, gor, runs, err, lemmas, out>>

\* case <-ctx.Done(): Call returns ctx.Err()
CallCancelled(k) ==
    /\ Step(k) = "wait"
    /\ stage' = [stage EXCEPT ![k].ret = "cancelled"]
    /\ heap' = Unpend(heap, stage[k].id)
    /\ UNCHANGED <<cfg, phase, roots, gor, runs, err, unit, lemmas, out>>

\* the peer reads a message of the stream: it answers a request with a
\* result or an error, and keeps a response
PeerRead ==
    /\ lemmas # <<>>
    /\ lemmas' = Tail(lemmas)
    /\ LET m == Head(lemmas) IN
       IF m.method # ""
       THEN \E e \in {"nil", "peer error"} :
               out' = [out EXCEPT
                         !.in = Append(@, Message("", m.id,
                                          IF e = "nil" THEN "value" ELSE "nil",
                                          e, TRUE)),
                         !.answered = (m.id :> e) @@ @]
       ELSE out' = [out EXCEPT !.got = Append(@, m)]
    /\ UNCHANGED <<cfg, phase, heap, roots, stage, gor, runs, err, unit>>

\* the peer sends a call, a notification, or data that is not a message
PeerSend ==
    /\ out.sent < MaxIncoming
    /\ \E m \in {Message("m", out.sent + 1, "nil", "nil", TRUE),
                 Message("m", 0, "nil", "nil", TRUE),
                 Message("", 0, "nil", "nil", TRUE),
                 Message("", 0, "nil", "nil", FALSE)} :
          out' = [out EXCEPT !.in = Append(@, m), !.sent = @ + 1]
    /\ UNCHANGED <<cfg, phase, heap, roots, stage, gor, runs, err, unit,
                   lemmas>>

\* one iteration of the loop of run that reads a message
RunRead ==
    /\ phase = "read"
    /\ ~err
    /\ out.in # <<>>
    /\ out' = [out EXCEPT !.in = Tail(@)]
    /\ LET msg == Head(out.in) IN
       CASE ~msg.wellformed ->
               UNCHANGED <<phase, heap, roots, gor, unit>>
         [] msg.wellformed /\ msg.method # "" ->
               /\ gor' = Append(gor, [id |-> msg.id, at |-> "handle",
                                      response |-> NoHold.response])
               /\ roots' = IF msg.id = 0 THEN roots ELSE roots \cup {msg.id}
               /\ UNCHANGED <<phase, heap, unit>>
         [] msg.wellformed /\ msg.method = "" /\ msg.id # 0 ->
               LET rchan == IF msg.id \in DOMAIN heap THEN heap[msg.id]
                            ELSE 0
               IN  /\ heap' = Unpend(heap, msg.id)
                   /\ unit' = [rchan |-> rchan,
                               response |-> Message("", msg.id, msg.result,
                                                    msg.error, TRUE)]
                   \* a send on a nil channel blocks forever
                   /\ phase' = IF rchan = 0 THEN "blocked" ELSE "sending"
                   /\ UNCHANGED <<roots, gor>>
         [] OTHER ->
               UNCHANGED <<phase, heap, roots, gor, unit>>
    /\ UNCHANGED <<cfg, stage, runs, err, lemmas>>

\* run returns: the context is done or c.stream.Read failed
RunReturns ==
    /\ phase = "read"
    /\ phase' = "returned"
    /\ UNCHANGED <<cfg, heap, roots, stage, gor, runs, err, unit, lemmas, out>>

\* the goroutine of an incoming request calls the handler; for a call it
\* builds the response
Handle(j) ==
    /\ j \in DOMAIN gor
    /\ gor[j].at = "handle"
    /\ gor' = [gor EXCEPT ![j] =
                  IF gor[j].id = 0
                  THEN [@ EXCEPT !.at = "done"]
                  ELSE [@ EXCEPT !.at = "respond",
                                 !.response = ResponseOf(gor[j].id,
                                                         cfg.handler)]]
    /\ UNCHANGED <<cfg, phase, heap, roots, stage, runs, err, unit, lemmas, out>>

\* the goroutine writes the response; if the write fails it calls
\* cancelRun; on the way out it removes the entry of c.handling
Respond(j) ==
    /\ j \in DOMAIN gor
    /\ gor[j].at = "respond"
    /\ roots' = roots \ {gor[j].id}
    /\ \/ /\ lemmas' = Append(lemmas, gor[j].response)
          /\ gor' = [gor EXCEPT ![j].at = "done"]
          /\ err' = err
       \/ /\ lemmas' = lemmas
          /\ gor' = [gor EXCEPT ![j].at = "failed"]
          /\ err' = TRUE
    /\ UNCHANGED <<cfg, phase, heap, stage, runs, unit, out>>

ConnNext ==
    \/ \E k \in 1..MaxRequests : CallBegin(k)
    \/ \E k \in 1..MaxRequests : CallRegister(k)
    \/ \E k \in 1..MaxRequests : CallWrite(k)
    \/ \E k \in 1..MaxRequests : CallReceive(k)
    \/ \E k \in 1..MaxRequests : CallCancelled(k)
    \/ PeerRead
    \/ PeerSend
    \/ RunRead
    \/ RunReturns
    \/ \E j \in 1..MaxIncoming : Handle(j)
    \/ \E j \in 1..MaxIncoming : Respond(j)

Conn == ConnInit /\ [][ConnNext]_vars

\* a goroutine of Call that can receive does so or takes the other case
ConnFair ==
    Conn /\ \A k \in 1..MaxRequests : WF_vars(CallReceive(k))

\* the goroutine of an incoming request runs to its end
ConnServing ==
    Conn /\ \A j \in 1..MaxIncoming : WF_vars(Handle(j)) /\ WF_vars(Respond(j))

(* Properties of the connection. *)

\* the request of call k has been written to the stream
Written(k) ==
    /\ stage[k].id # 0
    /\ \/ \E i \in DOMAIN lemmas :
             lemmas[i].method # "" /\ lemmas[i].id = stage[k].id
       \/ stage[k].id \in DOMAIN out.answered

\* the response to call k has arrived: run has read it from the stream
Arrived(k) ==
    /\ stage[k].id \in DOMAIN out.answered
    /\ ~\E i \in DOMAIN out.in :
           out.in[i].method = "" /\ out.in[i].id = stage[k].id

\* Call k has not returned
Waiting(k) == stage[k].ret = "none"

\* C28: Call registers its channel in pending before it writes the
\* request: as long as a Call whose request has been written has not
\* returned and its response has not arrived, pending holds its channel
\* under the request's ID; when the response arrives, at whatever moment
\* after the write, run finds that channel and sends on it the response
\* that the peer wrote; a Call that returns a response's outcome returns
\* that of the response to its own ID; and a Call whose response has
\* arrived returns.
C28_Delivered ==
    /\ [](\A k \in 1..MaxRequests :
            /\ (Written(k) /\ Waiting(k) /\ ~Arrived(k)) =>
                  (stage[k].id \in DOMAIN heap /\ heap[stage[k].id] = k)
            /\ (Arrived(k) /\ Waiting(k)) =>
                  /\ phase = "sending"
                  /\ unit.rchan = k
                  /\ unit.response.id = stage[k].id
                  /\ unit.response.error = out.answered[stage[k].id]
            /\ stage[k].ret \in {"nil", "error"} =>
                  /\ stage[k].id \in DOMAIN out.answered
                  /\ (stage[k].ret = "nil") <=>
                        (out.answered[stage[k].id] = "nil"))
    /\ \A k \in 1..MaxRequests : Arrived(k) ~> ~Waiting(k)

\* two calls have returned what the peer answered, the first the error
\* of its response and the second nil
C28_Witness ==
    /\ stage[1].ret = "error"
    /\ stage[2].ret = "nil"
    /\ out.answered[stage[1].id] = "peer error"

\* the responses that the Conn has written to incoming calls
Responses ==
    {lemmas[i] : i \in {j \in DOMAIN lemmas : lemmas[j].method = ""}}
    \cup Range(out.got)

\* C29: a Conn created without a Handler option answers an incoming call
\* with an error response only, never with a result.
C29_AsStated ==
    cfg.handler = "none" =>
        \A m \in Responses : m.error # "nil" /\ m.result = "nil"

\* run is in a send that no receive will ever meet: the channel is nil,
\* or the Call that made it has returned
SendStuck ==
    \/ phase = "blocked"
    \/ phase = "sending" /\ ~Waiting(unit.rchan)

\* C33 as stated: run never blocks for good while it delivers a response;
\* after every response that it reads, also one whose ID has no pending
\* Call, the loop can go on to the next message.
C33_AsStated == ~SendStuck

\* C34: a Call that has returned, with a response, with the error of the
\* stream write or with that of its context, has no entry in pending, and
\* every entry of pending is the channel of a Call, under that Call's
\* request ID, that has not returned.
C34_Pending ==
    /\ \A k \in 1..MaxRequests :
          ~Waiting(k) => stage[k].id \notin DOMAIN heap
    /\ \A id \in DOMAIN heap :
          /\ heap[id] \in 1..MaxRequests
          /\ stage[heap[id]].id = id
          /\ Waiting(heap[id])

\* one Call has returned a write error and the other a cancelled context
\* after its request was written, or a response; pending is empty
C34_Witness ==
    /\ heap = <<>>
    /\ stage[1].ret \in {"cancelled", "error"}
    /\ stage[2].ret = "write error"

\* the number of responses with this ID that the Conn has written
RECURSIVE Count(_, _)
Count(ms, id) ==
    IF ms = <<>> THEN 0
    ELSE (IF Head(ms).method = "" /\ Head(ms).id = id THEN 1 ELSE 0)
         + Count(Tail(ms), id)

ResponsesTo(id) == Count(lemmas, id) + Count(out.got, id)

\* the result or the error that a response to a call must hold
Answer(h) ==
    CASE h = "none" -> [result |-> "null", error |-> "nil"]
      [] h = "result" -> [result |-> "value", error |-> "nil"]
      [] h = "error" -> [result |-> "nil", error |-> "method error"]
      [] h = "unencodable" -> [result |-> "nil", error |-> "unsupported type"]

\* C35: for an incoming request with an ID, the goroutine that ran the
\* handler goes on to write the response; when it is done the Conn has
\* written exactly one response with that ID (none if the stream refused
\* the write), which holds the handler's encoded result or its error, or
\* the error of encoding the result; before that, and for a notification,
\* whose handler is run as well, no response is written.
C35_OneResponse ==
    /\ [](\A j \in DOMAIN gor :
            LET id == gor[j].id IN
            /\ id = 0 => gor[j].at \in {"handle", "done"}
            /\ ResponsesTo(id) = IF id # 0 /\ gor[j].at = "done" THEN 1 ELSE 0
            /\ (id # 0 /\ gor[j].at = "done") =>
                  \E m \in Responses :
                     /\ m.id = id
                     /\ m.result = Answer(cfg.handler).result
                     /\ m.error = Answer(cfg.handler).error)
    /\ \A j \in 1..MaxIncoming :
          (j \in DOMAIN gor /\ gor[j].at # "done")
             ~> (j \in DOMAIN gor /\ gor[j].at \in {"done", "failed"})

\* the peer has received the one response to its call, an error of the
\* handler
C35_Witness ==
    /\ cfg.handler = "error"
    /\ \E j \in DOMAIN gor : gor[j].id # 0 /\ gor[j].at = "done"
    /\ \E i \in DOMAIN out.got : out.got[i].error = "method error"

(* Properties of the lemmas of packages in the checker. *)

\* act.pkgLemma(pkg, ptr) of the action of package k, for a lemma of the
\* declared type t: whether act.pkgLemmas[i][pkg] has an entry
PackageLemmaOf(k, pkg, t) == <<pkg, t>> \in DOMAIN lemmas[k].pkg

\* C36: in the checker, when no action has failed, a lemma of type T that
\* the action of package P set on its package is reported present by the
\* PackageLemma getter, asked for P and T, of the action of every package
\* that imports P directly or through other packages, from the moment
\* that action has inherited the lemmas of its dependencies.
C36_PackageLemmas ==
    \A p \in 1..2 : \A q \in (p + 1)..3 : \A t \in Range(FactTypes) :
        (/\ cfg.driver = "checker"
         /\ phase # "panic"
         /\ Loaded(q)
         /\ PackageLemmaOf(p, heap[p].pkg, t))
        => PackageLemmaOf(q, heap[p].pkg, t)

\* the action of "q", which imports "r" through "p" only, reports the
\* lemma that the action of "r" set on its package
C36_Witness ==
    /\ cfg.driver = "checker"
    /\ phase # "panic"
    /\ Loaded(3)
    /\ PackageLemmaOf(1, heap[1].pkg, 1)
    /\ lemmas[3].pkg[<<heap[1].pkg, 1>>] = 1
    /\ PackageLemmaOf(3, heap[1].pkg, 1)
    /\ ~PackageLemmaOf(3, heap[2].pkg, 1)

\* C32 as stated: in the doctor, a lemma that readLemmas binds to an
\* object X of the direct import is a lemma that the Run of that import
\* set on X (the value of a lemma names the package whose Run set it);
\* a lemma of an object of another package, written into the import's file
\* with the import's own lemmas, is not bound to the object with the same
\* path.
C32_AsStated ==
    \A k \in 2..3 : \A key \in DOMAIN lemmas[k].obj :
        (/\ cfg.driver = "doctor"
         /\ Loaded(k)
         /\ key[1].pkg = heap[k - 1].pkg)
        => /\ lemmas[k].obj[key] = k - 1
           /\ key \in DOMAIN lemmas[k - 1].obj

(***************************************************************************)
(* The stores of lemmas of the two drivers as the code keeps them: in the   *)
(* checker one map per lemma type of the analysis, act.objLemmas[i] and     *)
(* act.pkgLemmas[i]; in the doctor one map under lemmaKey{obj, pkgpath, t}. *)
(* The package under analysis is "p", which imports "r".  A lemma is the    *)
(* string that stands for its value.  In this specification lemmas is the   *)
(* store, stage the lemma that was set or inherited last under each key,    *)
(* runs the number of calls made and out the latest call.                   *)
(***************************************************************************)

\* the number of calls of the accessors
MaxOps == 3

\* an object: its package and its name; StoreNil is a nil types.Object
StoreObject(pp, id) == [pkg |-> pp, id |-> id]

StoreNil == StoreObject(<<>>, "nil")

\* the objects of the package and one of the imported package
StoreObjects ==
    {StoreObject(ChainPaths[2], "Fn"), StoreObject(ChainPaths[2], "v"),
     StoreObject(ChainPaths[1], "Fn")}

\* the values of the lemmas that Run sets; the pointer that a caller
\* passes to a getter points to CallerValue
LemmaValues == {"first", "second"}

CallerValue == "zero"

\* the value of an inherited lemma
InheritedValue == "inherited"

\* lemmaIndex: the index of the type in a.LemmaTypes, 0 for a panic
lemmaIndex(t) ==
    IF \E i \in DOMAIN FactTypes : FactTypes[i] = t
    THEN CHOOSE i \in DOMAIN FactTypes :
            FactTypes[i] = t /\ \A j \in 1..(i - 1) : FactTypes[j] # t
    ELSE 0

\* what a getter returns and leaves in *ptr
Got(present, ptr) == [present |-> present, ptr |-> ptr]

\* act.objLemma(obj, ptr)
actionObjLemma(act, obj, t, ptr) ==
    LET i == lemmaIndex(t) IN
    IF obj \in DOMAIN act.objLemmas[i]
    THEN Got(TRUE, act.objLemmas[i][obj])
    ELSE Got(FALSE, ptr)

\* act.setObjLemma(obj, lemma): m[obj] = lemma
actionSetObjLemma(act, obj, t, v) ==
    LET i == lemmaIndex(t) IN
    [act EXCEPT !.objLemmas[i] = (obj :> v) @@ @]

\* act.pkgLemma(pkg, ptr)
actionPkgLemma(act, pkg, t, ptr) ==
    LET i == lemmaIndex(t) IN
    IF pkg \in DOMAIN act.pkgLemmas[i]
    THEN Got(TRUE, act.pkgLemmas[i][pkg])
    ELSE Got(FALSE, ptr)

\* act.setPkgLemma(lemma): m[act.unit.Pkg] = lemma
actionSetPkgLemma(act, pkg, t, v) ==
    LET i == lemmaIndex(t) IN
    [act EXCEPT !.pkgLemmas[i] = (pkg :> v) @@ @]

lemmaKey(obj, pkgpath, t) == [obj |-> obj, pkgpath |-> pkgpath, t |-> t]

\* ls.getObj(obj, ptr)
getObj(m, obj, t, ptr) ==
    LET key == lemmaKey(obj, <<>>, t) IN
    IF key \in DOMAIN m THEN Got(TRUE, m[key]) ELSE Got(FALSE, ptr)

\* faulty variant: an existing entry is kept
setObjKeep(m, obj, t, v) ==
    LET key == lemmaKey(obj, <<>>, t) IN
    IF key \in DOMAIN m THEN m ELSE (key :> v) @@ m

\* ls.setObj(obj, lemma): ls.m[key] = lemma
setObj(m, obj, t, v) == (lemmaKey(obj, <<>>, t) :> v) @@ m

\* ls.getPkg(pkg, ptr)
getPkg(m, pkg, t, ptr) ==
    LET key == lemmaKey(StoreNil, pkg, t) IN
    IF key \in DOMAIN m THEN Got(TRUE, m[key]) ELSE Got(FALSE, ptr)

\* ls.setPkg(lemma)
setPkg(m, pkg, t, v) == (lemmaKey(StoreNil, pkg, t) :> v) @@ m

\* the store of an action of the checker after execOnce has made the maps
\* and inherited the lemmas inh of its dependency; that of the doctor
\* after readLemmas has read them
StoreMade(driver, inh) ==
    IF driver = "checker"
    THEN [objLemmas |-> [i \in DOMAIN FactTypes |->
                           [o \in {k[1] : k \in {x \in DOMAIN inh.obj :
                                                   lemmaIndex(x[2]) = i}}
                              |-> inh.obj[<<o, FactTypes[i]>>]]],
          pkgLemmas |-> [i \in DOMAIN FactTypes |->
                           [q \in {k[1] : k \in {x \in DOMAIN inh.pkg :
                                                   lemmaIndex(x[2]) = i}}
                              |-> inh.pkg[<<q, FactTypes[i]>>]]]]
    ELSE [key \in {lemmaKey(k[1], <<>>, k[2]) : k \in DOMAIN inh.obj}
                  \cup {lemmaKey(StoreNil, k[1], k[2]) : k \in DOMAIN inh.pkg}
            |-> IF key.obj = StoreNil THEN inh.pkg[<<key.pkgpath, key.t>>]
                ELSE inh.obj[<<key.obj, key.t>>]]

\* what the package inherits: nothing, or a lemma of the first type on Fn
\* of "r" and one of the second type on the package "r"
Inheritances ==
    {NoLemmas,
     [obj |-> (<<StoreObject(ChainPaths[1], "Fn"), FactTypes[1]>>
                  :> InheritedValue),
      pkg |-> (<<ChainPaths[1], FactTypes[2]>> :> InheritedValue)]}

NoOp == [op |-> "", obj |-> StoreNil, pkg |-> <<>>, t |-> 0, v |-> "",
         got |-> Got(FALSE, CallerValue)]

LemmaStoreInit ==
    /\ cfg \in [driver : FactDrivers]
    /\ \E inh \in Inheritances :
          /\ lemmas = StoreMade(cfg.driver, inh)
          /\ stage = inh
    /\ phase = "run"
    /\ runs = 0
    /\ out = NoOp
    /\ heap = <<>> /\ roots = <<>> /\ gor = <<>> /\ err = <<>> /\ unit = <<>>

\* the getters of the Unit, on store l
StoreObjectLemma(l, obj, t) ==
    IF cfg.driver = "checker" THEN actionObjLemma(l, obj, t, CallerValue)
    ELSE getObj(l, obj, t, CallerValue)

StorePackageLemma(l, pkg, t) ==
    IF cfg.driver = "checker" THEN actionPkgLemma(l, pkg, t, CallerValue)
    ELSE getPkg(l, pkg, t, CallerValue)

\* Run calls unit.SetObjectLemma(obj, &T{v}) for an object of the package
\* and a declared type
StoreSetObject ==
    /\ runs < MaxOps
    /\ \E obj \in {o \in StoreObjects : OwnObject(o, ChainPaths[2])},
          t \in Range(FactTypes), v \in LemmaValues :
          /\ lemmas' = IF cfg.driver = "checker"
                       THEN actionSetObjLemma(lemmas, obj, t, v)
                       ELSE setObj(lemmas, obj, t, v)
          /\ stage' = [stage EXCEPT !.obj = (<<obj, t>> :> v) @@ @]
          /\ out' = [NoOp EXCEPT !.op = "SetObjectLemma", !.obj = obj,
                                 !.t = t, !.v = v]
    /\ runs' = runs + 1
    /\ UNCHANGED <<cfg, phase, heap, roots, gor, err, unit>>

\* Run calls unit.SetPackageLemma(&T{v})
StoreSetPackage ==
    /\ runs < MaxOps
    /\ \E t \in Range(FactTypes), v \in LemmaValues :
          /\ lemmas' = IF cfg.driver = "checker"
                       THEN actionSetPkgLemma(lemmas, ChainPaths[2], t, v)
                       ELSE setPkg(lemmas, ChainPaths[2], t, v)
          /\ stage' = [stage EXCEPT !.pkg = (<<ChainPaths[2], t>> :> v) @@ @]
          /\ out' = [NoOp EXCEPT !.op = "SetPackageLemma",
                                 !.pkg = ChainPaths[2], !.t = t, !.v = v]
    /\ runs' = runs + 1
    /\ UNCHANGED <<cfg, phase, heap, roots, gor, err, unit>>

\* Run calls unit.ObjectLemma(obj, ptr)
StoreGetObject ==
    /\ runs < MaxOps
    /\ \E obj \in StoreObjects, t \in Range(FactTypes) :
          out' = [NoOp EXCEPT !.op = "ObjectLemma", !.obj = obj, !.t = t,
                              !.got = StoreObjectLemma(lemmas, obj, t)]
    /\ runs' = runs + 1
    /\ UNCHANGED <<cfg, phase, heap, roots, gor, err, unit, lemmas, stage>>

\* Run calls unit.PackageLemma(pkg, ptr)
StoreGetPackage ==
    /\ runs < MaxOps
    /\ \E pkg \in {ChainPaths[1], ChainPaths[2]}, t \in Range(FactTypes) :
          out' = [NoOp EXCEPT !.op = "PackageLemma", !.pkg = pkg, !.t = t,
                              !.got = StorePackageLemma(lemmas, pkg, t)]
    /\ runs' = runs + 1
    /\ UNCHANGED <<cfg, phase, heap, roots, gor, err, unit, lemmas, stage>>

LemmaStoreNext ==
    StoreSetObject \/ StoreSetPackage \/ StoreGetObject \/ StoreGetPackage

LemmaStore == LemmaStoreInit /\ [][LemmaStoreNext]_vars

(* Properties of the stores. *)

\* what a getter must return for a key: the lemma set or inherited last,
\* or absent and the caller's value
Expected(m, key) ==
    IF key \in DOMAIN m THEN Got(TRUE, m[key]) ELSE Got(FALSE, CallerValue)

\* C31: at every moment the ObjectLemma getter reports, for every object
\* and declared type, the lemma that was set last on that object with that
\* type (or inherited for it, if none was set), and absent, with the
\* caller's value untouched, if none ever was; so a set replaces the lemma
\* of its own object and type and no other; the same holds for the lemmas
\* of packages, which no set on an object changes; a getter changes
\* nothing and returns what was seen at the call.
C31_LastWrite ==
    /\ \A obj \in StoreObjects : \A t \in Range(FactTypes) :
          StoreObjectLemma(lemmas, obj, t) = Expected(stage.obj, <<obj, t>>)
    /\ \A pkg \in {ChainPaths[1], ChainPaths[2]} : \A t \in Range(FactTypes) :
          StorePackageLemma(lemmas, pkg, t) = Expected(stage.pkg, <<pkg, t>>)
    /\ out.op = "ObjectLemma" =>
          out.got = Expected(stage.obj, <<out.obj, out.t>>)
    /\ out.op = "PackageLemma" =>
          out.got = Expected(stage.pkg, <<out.pkg, out.t>>)

\* a lemma of Fn was set, then replaced, and the getter returned the
\* second value, while the lemma of the other type of Fn is absent and the
\* inherited lemmas are as they were
C31_Witness ==
    /\ runs = 3
    /\ out.op = "ObjectLemma"
    /\ out.obj = StoreObject(ChainPaths[2], "Fn")
    /\ out.got = Got(TRUE, "second")
    /\ DOMAIN stage.obj = {<<StoreObject(ChainPaths[2], "Fn"), 1>>,
                           <<StoreObject(ChainPaths[1], "Fn"), 1>>}
    /\ StoreObjectLemma(lemmas, StoreObject(ChainPaths[2], "Fn"), 2)
          = Got(FALSE, CallerValue)
    /\ StorePackageLemma(lemmas, ChainPaths[1], 2) = Got(TRUE, InheritedValue)

(***************************************************************************)
(* The ctrlflow analysis: pass 2 of run builds the control-flow graph of    *)
(* every declared function; cfg.New asks callMayReturn about the calls of   *)
(* the body, and callMayReturn builds the graph of a callee declared in     *)
(* the package first.  The recursion of the code is a stack of frames.      *)
(* In this specification cfg holds the declarations, heap is c.funcDecls,   *)
(* gor the stack of the graphs under construction, runs the position of     *)
(* the loop over decls, stage the number of constructions begun per         *)
(* function, lemmas the functions with a noReturn lemma and out the calls   *)
(* that reached a function under construction.                              *)
(***************************************************************************)

\* the number of declared functions and of calls in a body
MaxFuncs == 2

MaxStmts == 2

\* no function's construction begins more often than this
MaxBuilds == 2

\* a call statement: of a function declared in the package, of panic, of
\* an imported function (with or without a noReturn lemma), or not static
CallExpr(kind, fn, noReturn) == [kind |-> kind, fn |-> fn, noReturn |-> noReturn]

CallExprs ==
    {CallExpr("decl", i, FALSE) : i \in 1..MaxFuncs}
        \cup {CallExpr("panic", 0, FALSE), CallExpr("dynamic", 0, FALSE),
              CallExpr("import", 0, FALSE), CallExpr("import", 0, TRUE)}

\* a declaration: whether decl.Body is non-nil, and the calls of the body
FuncDecl(body, calls) == [body |-> body, calls |-> calls]

FuncDecls ==
    {FuncDecl(FALSE, <<>>)}
        \cup {FuncDecl(TRUE, s) :
                s \in UNION {[1..n -> CallExprs] : n \in 0..MaxStmts}}

\* &declInfo{decl: n}
declInfo == [cfg |-> FALSE, started |-> FALSE, noReturn |-> FALSE]

\* a graph under construction: the function, the next call of its body
\* and whether the current block is reachable
Frame(fn) == [fn |-> fn, pc |-> 1, live |-> TRUE]

\* faulty variant: the started flag is not consulted
buildDeclAgain(di, decl) ==
    IF ~di.cfg /\ decl.body THEN "build" ELSE "skip"

\* buildDecl: what the call does with the function
buildDecl(di, decl) ==
    IF ~di.cfg /\ decl.body
    THEN IF di.started THEN "break" ELSE "build"
    ELSE "skip"

\* callMayReturn, once buildDecl has returned; decls is c.funcDecls then
callMayReturn(decls, call) ==
    IF call.kind = "panic" THEN FALSE
    ELSE IF call.kind = "dynamic" THEN TRUE
    ELSE IF call.kind = "decl" THEN ~decls[call.fn].noReturn
    ELSE ~call.noReturn

\* cfg.New after the callback returned r: a call that does not return
\* ends the reachable code
Resume(frame, r) == [frame EXCEPT !.pc = @ + 1, !.live = @ /\ r]

\* the state when pass 1 has mapped the declarations; cfg.dead tells
\* whether cfg.New asks about calls in unreachable code as well
CtrlflowInit ==
    /\ \E d \in [1..MaxFuncs -> FuncDecls], dead \in BOOLEAN :
          cfg = [decls |-> d, dead |-> dead]
    /\ phase = "pass2"
    /\ heap = [i \in 1..MaxFuncs |-> declInfo]
    /\ gor = <<>>
    /\ runs = 1
    /\ stage = [i \in 1..MaxFuncs |-> 0]
    /\ lemmas = {}
    /\ out = {}
    /\ roots = <<>> /\ err = <<>> /\ unit = <<>>

\* di.started = true; di.cfg = cfg.New(...) begins
Begin(fn) ==
    /\ stage[fn] < MaxBuilds
    /\ heap' = [heap EXCEPT ![fn].started = TRUE]
    /\ stage' = [stage EXCEPT ![fn] = @ + 1]
    /\ gor' = Append(gor, Frame(fn))

\* for _, fn := range decls { c.buildDecl(fn, funcDecls[fn]) }
CtrlflowBuild ==
    /\ phase = "pass2" /\ gor = <<>> /\ runs <= MaxFuncs
    /\ IF buildDecl(heap[runs], cfg.decls[runs]) = "build"
       THEN Begin(runs) /\ runs' = runs
       ELSE runs' = runs + 1 /\ UNCHANGED <<heap, stage, gor>>
    /\ UNCHANGED <<cfg, phase, lemmas, out, roots, err, unit>>

\* cfg.New reaches the next call of the body and asks callMayReturn
CtrlflowCall ==
    /\ phase = "pass2" /\ gor # <<>>
    /\ LET top == gor[Len(gor)]
           calls == cfg.decls[top.fn].calls
       IN /\ top.pc <= Len(calls)
          /\ LET call == calls[top.pc]
                 asked == top.live \/ cfg.dead
                 does == IF asked /\ call.kind = "decl"
                         THEN buildDecl(heap[call.fn], cfg.decls[call.fn])
                         ELSE "skip"
                 r == ~asked \/ callMayReturn(heap, call)
             IN IF does = "build"
                THEN Begin(call.fn) /\ out' = out
                ELSE /\ gor' = [gor EXCEPT ![Len(gor)] = Resume(top, r)]
                     /\ out' = IF does = "break"
                               THEN out \cup {[fn |-> call.fn, from |-> top.fn,
                                               r |-> r]}
                               ELSE out
                     /\ UNCHANGED <<heap, stage>>
    /\ UNCHANGED <<cfg, phase, runs, lemmas, roots, err, unit>>

\* cfg.New returns: di.cfg is set, and noReturn and the lemma if no
\* return is reachable; the caller, if any, resumes
CtrlflowBuilt ==
    /\ phase = "pass2" /\ gor # <<>>
    /\ LET top == gor[Len(gor)]
           noReturn == ~top.live
           decls == [heap EXCEPT ![top.fn].cfg = TRUE,
                                 ![top.fn].noReturn = @ \/ noReturn]
       IN /\ top.pc > Len(cfg.decls[top.fn].calls)
          /\ heap' = decls
          /\ lemmas' = IF noReturn THEN lemmas \cup {top.fn} ELSE lemmas
          /\ IF Len(gor) = 1
             THEN gor' = <<>> /\ runs' = runs + 1
             ELSE /\ gor' = Append(SubSeq(gor, 1, Len(gor) - 2),
                                   Resume(gor[Len(gor) - 1],
                                          ~decls[top.fn].noReturn))
                  /\ runs' = runs
    /\ UNCHANGED <<cfg, phase, stage, out, roots, err, unit>>

\* unit.Output = c; return nil.  The loop over the literals calls
\* buildDecl only for functions whose graph exists or that have no body.
CtrlflowReturn ==
    /\ phase = "pass2" /\ gor = <<>> /\ runs = MaxFuncs + 1
    /\ phase' = "done"
    /\ UNCHANGED <<cfg, heap, gor, runs, stage, lemmas, out, roots, err, unit>>

CtrlflowNext ==
    CtrlflowBuild \/ CtrlflowCall \/ CtrlflowBuilt \/ CtrlflowReturn

Ctrlflow == CtrlflowInit /\ [][CtrlflowNext]_vars

\* run is one sequential call: it takes its next step
CtrlflowFair == Ctrlflow /\ WF_vars(CtrlflowNext)

(* Properties of ctrlflow. *)

\* the functions whose graph is under construction
UnderConstruction == {gor[i].fn : i \in DOMAIN gor}

\* C37: run returns, and all the while the construction of the graph of
\* each declared function has begun at most once, no function is under
\* construction twice, and every call that reached a function under
\* construction was answered "may return"; when run has returned, every
\* function with a body has its graph.
C37_BuiltOnce ==
    /\ [](/\ \A fn \in 1..MaxFuncs : stage[fn] <= 1
          /\ \A i, j \in DOMAIN gor : gor[i].fn = gor[j].fn => i = j
          /\ \A e \in out : e.r
          /\ phase = "done" =>
                \A fn \in 1..MaxFuncs : heap[fn].cfg = cfg.decls[fn].body)
    /\ <>(phase = "done")

\* run has returned after a function reached itself directly and another
\* reached it through a second function, each graph built once
C37_Witness ==
    /\ phase = "done"
    /\ \E e \in out : e.fn = e.from
    /\ \E e \in out : e.fn # e.from
    /\ \A fn \in 1..MaxFuncs : stage[fn] = 1

====
